---------------------------- MODULE Spec2Model ----------------------------
(***************************************************************************)
(* Model of content-loader's core orchestration layer:                     *)
(*   - SimpleRetryHandler.execute_with_retry   (core/base.py)              *)
(*   - BaseExecutor.execute                    (core/base.py)              *)
(*   - LoaderExecutor.run_single_loader        (core/executor.py)          *)
(*   - LoaderExecutor.run_all_loaders          (core/executor.py)          *)
(*                                                                         *)
(* Two specifications:                                                     *)
(*   Spec       one run_all_loaders call over a registry of executors,     *)
(*              every executor with its default SimpleRetryHandler();      *)
(*   SpecRetry  one execute_with_retry stream consumed directly, for every *)
(*              configuration (max_retries, base_delay) of the handler.    *)
(*                                                                         *)
(* asyncio is cooperative: a chain of async generators only suspends where *)
(* the innermost coroutine awaits. The suspension points of the modelled   *)
(* code are the semaphore acquire, the awaits inside fetch() (between two  *)
(* documents) and asyncio.sleep(); everything between two of them is one   *)
(* action.                                                                 *)
(***************************************************************************)
EXTENDS Integers, Sequences, FiniteSets, TLC

(* ------------------------------ bounds -------------------------------- *)
\* documents a source can yield in one fetch() invocation, in SpecRetry
MaxItems == 2
\* documents all sources together yield during one run_all_loaders call
MaxDocs == 2
\* largest max_concurrent passed to run_all_loaders
MaxConcurrent == 2
\* number of configured sources
NumKeys == 2
\* largest max_retries a SimpleRetryHandler is configured with in SpecRetry
MaxRetries == 3
\* run_single_loader calls made one after another in SpecSingle
MaxRuns == 2
\* length of the source list a LoaderExecutor is constructed from in SpecInit
MaxSources == 3
\* number of configured sources in SpecByType
NumTypeKeys == 3
\* latest instant of a DateRange bound or a timestamp in SpecDateRange
MaxInstant == 3
\* longest document stream handed to process_batch in SpecBatch
MaxStream == 5
\* largest batch size in SpecBatch
MaxBatch == 3
\* longest document text, in characters, in SpecChunk
MaxText == 6
\* largest chunk_size in SpecChunk
MaxChunk == 5
\* most chunks of one document in SpecProcess
MaxChunksPerDoc == 2

(* ------------------------- program constants -------------------------- *)
\* SimpleRetryHandler.__init__ defaults
DefaultMaxRetries == 3
DefaultBaseDelay == 1
\* SimpleMemoryManager.__init__ default
DefaultBatchSize == 20
\* DocumentProcessor.chunk_document default
DefaultChunkSize == 500
\* EmbeddingService.get_embedding_dimension fallback
DefaultDimension == 384

\* executor keys "<source_type>:<source_key>" of the configured sources
SourceKeys == <<"slack:general", "github:repo", "slack:random", "confluence:wiki">>
Keys == {SourceKeys[i] : i \in 1..NumKeys}
\* the registry a run_loaders_by_type call is made on, in SpecByType
TypeKeys == {SourceKeys[i] : i \in 1..NumTypeKeys}

\* the (source_type.value, source_key) pair each executor key is formatted
\* from (line 51) and split into again (line 207)
LoaderTypes == <<"slack", "github", "slack", "confluence">>
SourceNames == <<"general", "repo", "random", "wiki">>
KeyIndex(k) == CHOOSE i \in 1..Len(SourceKeys) : SourceKeys[i] = k
LoaderType(k) == LoaderTypes[KeyIndex(k)]
SourceKey(k) == SourceNames[KeyIndex(k)]

\* base_delay values a handler is configured with in SpecRetry (seconds)
BaseDelays == {-1, 0, 1, 3}

None == "None"

\* None where the other values are instants: an unset bound of a DateRange,
\* a document without updated_at
Unset == -1

\* value of a report variable before the method that fills it was called
NoReport == [message |-> "(not called)"]

(* ------------------------------ errors -------------------------------- *)
\* error kinds a fetch() can fail with
TransientKinds == {"ConnectionError", "TimeoutError", "OSError"}
DataSourceKinds == {"DataSourceUnavailableError", "DataSourceNotFoundError",
                    "RateLimitError", "SlackPermissionError",
                    "TokenExpiredError"}
ErrorKinds == TransientKinds \cup DataSourceKinds \cup {"ValueError"}

\* error kinds drawn by the sources of a run_all_loaders call
RunAllErrorKinds == {"ConnectionError", "RateLimitError"}

\* is_retryable_error(error): the helper of exceptions.py (not used by the
\* retry handler)
is_retryable_error(kind) ==
    kind \in TransientKinds \cup {"DataSourceUnavailableError", "RateLimitError"}

\* (mutation: the except clause decides with is_retryable_error)
IsTransientAsRetryable(kind) == is_retryable_error(kind)

\* the first except clause of execute_with_retry:
\* except (ConnectionError, TimeoutError, OSError)
IsTransient(kind) == kind \in {"ConnectionError", "TimeoutError", "OSError"}

(* ------------------------------ helpers ------------------------------- *)
RECURSIVE Pow2(_)
Pow2(n) == IF n <= 0 THEN 1 ELSE 2 * Pow2(n - 1)

\* dict[k] = v
Put(f, k, v) == [x \in (DOMAIN f) \cup {k} |-> IF x = k THEN v ELSE f[x]]

\* the i-th document the source of executor k produces in a fresh fetch()
Doc(k, i) == <<k, i>>

\* the first n documents of the source of k
RECURSIVE Prefix(_, _)
Prefix(k, n) == IF n <= 0 THEN <<>> ELSE Append(Prefix(k, n - 1), Doc(k, n))


(* ------------------------------- state -------------------------------- *)
VARIABLES
    \* SimpleRetryHandler of each executor
    max_retries,        \* [Keys -> Int]   self.max_retries
    base_delay,         \* [Keys -> Int]   self.base_delay
    \* one execute_with_retry generator per executor
    rpc,                \* [Keys -> {"idle","streaming","sleeping","returned","raised"}]
    attempt,            \* [Keys -> Int]   loop variable of line 125
    last_exception,     \* [Keys -> kind or None]
    cursor,             \* [Keys -> Nat]   position of the current fetch() generator
    raised,             \* [Keys -> kind or None] error propagated out of the generator
    delivered,          \* [Keys -> Seq(Doc)] items yielded downstream (history)
    calls,              \* [Keys -> Seq([yielded, outcome])] factory invocations (history)
    sleeps,             \* [Keys -> Seq(Int)] delays passed to asyncio.sleep (history)
    \* LoaderExecutor
    executors,          \* set of registered executor keys (self.executors)
    execution_stats,    \* dict key -> stats record (self.execution_stats)
    \* one run_all_loaders call
    max_concurrent,     \* argument of run_all_loaders
    run_all_pc,         \* "idle", "gathering", "done"
    run_all_outcome,    \* what the call returned or raised
    semaphore,          \* value of asyncio.Semaphore(max_concurrent)
    results,            \* dict key -> list of documents
    failed_loaders,     \* list of keys
    tpc,                \* [Keys -> {"none","waiting","running","done"}] gather tasks
    documents,          \* [Keys -> Seq(Doc)] local of run_loader_with_semaphore
    documents_processed,\* [Keys -> Nat]   local of run_single_loader
    errors_count,       \* [Keys -> Nat]   local of run_single_loader
    loader_error,       \* [Keys -> details of the LoaderExecutionError raised, or None]
    finished,           \* [Keys -> Seq([yielded, failed])] the finished runs (history)
    \* a caller of run_single_loader
    single_pc,          \* "idle", "created", "streaming", "ended"
    single_key,         \* executor key of the current call
    single_outcome,     \* how the stream ended, as the caller sees it
    runs,               \* number of run_single_loader calls so far
    \* results of the last get_execution_stats / health_check call
    stats_report,
    health_report,
    \* LoaderExecutor.__init__
    sources,            \* self.sources: Seq([source_type, source_key, enabled])
    init_pc,            \* "running", "done", "raised"
    init_pos,           \* position of the for loop of _initialize_executors
    \* run_loaders_by_type
    by_type_pc,         \* "idle", "looping", "streaming", "done"
    source_type,        \* argument of run_loaders_by_type
    matching_executors, \* keys of matching_executors not yet iterated
    executor_key,       \* loop variable of run_loaders_by_type
    by_type_outcome,    \* what the call returned
    \* DateRange.includes
    date_range,         \* a DateRange [start, end]
    target_date,        \* argument of includes
    date_pc,            \* "idle", "done": has includes returned
    includes_result,    \* what includes returned
    \* BaseExecutor.execute
    date_range_arg,     \* Optional[DateRange] argument: <<>> or <<range>>
    updated_at,         \* [1..n -> instant or Unset]: updated_at of the i-th document
    yielded,            \* the documents execute has yielded
    \* SimpleMemoryManager.process_batch
    self_batch_size,    \* self.batch_size
    batch_size,         \* Optional[int] argument: <<>> or <<n>>
    documents_stream,   \* the documents the stream argument produces
    consumed,           \* how many of them the async for has taken
    effective_batch_size,
    batch,              \* local list
    batches,            \* the batches yielded so far
    batch_pc,           \* "idle", "running", "done", "raised"
    \* DocumentProcessor.chunk_document
    document,           \* [id, text]: the Document, its text a sequence of characters
    chunk_size,         \* argument
    chunk_i,            \* loop variable i
    chunks,             \* the list built
    chunk_pc,           \* "idle", "looping", "done", "raised"
    \* DocumentProcessor.process_documents / process_document
    model_dimension,    \* what the embedding model reports: <<>> (None) or <<n>>
    input_documents,    \* the stream argument, a sequence of Documents
    proc_pos,           \* how many documents the async for has taken
    embedding_dim,      \* local of process_documents
    processed_count,    \* local of process_documents
    proc_chunks,        \* local chunks of process_document
    texts,              \* local of process_document
    embeddings,         \* local of process_document
    process_pc,         \* "idle", "next", "chunk", "embed", "store", "done", "raised"
    collaborator_calls, \* history: the calls made on the two collaborators
    handled,            \* history: [pos, failed] per document taken
    points,             \* the collection of the vector store, a set of points
    uuid_count          \* how many point ids uuid4 has produced

retryVars == <<max_retries, base_delay, rpc, attempt, last_exception, cursor,
               raised, delivered, calls, sleeps>>
orchVars == <<executors, execution_stats, max_concurrent, run_all_pc,
              run_all_outcome, semaphore, results, failed_loaders, tpc,
              documents, documents_processed, errors_count, loader_error,
              finished>>
singleVars == <<single_pc, single_key, single_outcome, runs>>
reportVars == <<stats_report, health_report>>
initVars == <<sources, init_pc, init_pos>>
typeVars == <<by_type_pc, source_type, matching_executors, executor_key,
              by_type_outcome>>
dateVars == <<date_range, target_date, date_pc, includes_result>>
execVars == <<date_range_arg, updated_at, yielded>>
batchVars == <<self_batch_size, batch_size, documents_stream, consumed,
               effective_batch_size, batch, batches, batch_pc>>
chunkVars == <<document, chunk_size, chunk_i, chunks, chunk_pc>>
procVars == <<model_dimension, input_documents, proc_pos, embedding_dim, processed_count,
              proc_chunks, texts, embeddings, process_pc, collaborator_calls, handled,
              points, uuid_count>>
extVars == <<typeVars, dateVars, execVars, batchVars, chunkVars, procVars>>
callerVars == <<singleVars, reportVars, initVars, extVars>>
vars == <<retryVars, orchVars, callerVars>>

(* ------------------- SimpleRetryHandler.execute_with_retry ------------ *)
\* (mutation: the loop body runs at least once)
RangeHasNextOrFirst(a, m) == a < m \/ a = 0

\* for attempt in range(self.max_retries): is there an iteration a?
RangeHasNext(a, m) == a < m

\* (mutation: if attempt < self.max_retries)
AttemptsRemainOffByOne(a, m) == a < m

\* if attempt < self.max_retries - 1
AttemptsRemain(a, m) == a < m - 1

\* (mutation: the exponent is dropped, delay = self.base_delay)
BackoffDelayFixed(b, a) == b

\* delay = self.base_delay * (2**attempt)
BackoffDelay(b, a) == b * Pow2(a)

\* (mutation: the stream resumes after the last document already yielded)
ResumeCursor(previous) == previous

\* func_generator() is called anew in every iteration: a fresh generator
\* starts at the source's first document whatever the failed attempt yielded
FreshCursor(previous) == 0

\* (mutation: break instead of return, so that lines 145-146 run)
CompletionOutcomeBreak(last) == IF last # None THEN "raised" ELSE "returned"

\* line 129: return after the natural completion of the stream
CompletionOutcome(last) == "returned"

SetLast(s, r) == [s EXCEPT ![Len(s)] = r]
CloseCall(k, outcome) ==
    calls' = [calls EXCEPT ![k] = SetLast(@, [@[Len(@)] EXCEPT !.outcome = outcome])]

\* the generator leaves execute_with_retry by raising kind
Raise(k, kind) ==
    /\ rpc' = [rpc EXCEPT ![k] = "raised"]
    /\ raised' = [raised EXCEPT ![k] = kind]

\* head of the for loop with loop value a (lines 125-127), or the code after
\* the loop when the range is exhausted (lines 144-146)
LoopHead(k, a) ==
    IF RangeHasNext(a, max_retries[k])
    THEN /\ attempt' = [attempt EXCEPT ![k] = a]
         /\ rpc' = [rpc EXCEPT ![k] = "streaming"]
         /\ cursor' = [cursor EXCEPT ![k] = FreshCursor(@)]
         /\ calls' = [calls EXCEPT ![k] = Append(@, [yielded |-> 0, outcome |-> "running"])]
         /\ UNCHANGED raised
    ELSE /\ IF last_exception[k] # None
            THEN Raise(k, last_exception[k])
            ELSE /\ rpc' = [rpc EXCEPT ![k] = "returned"]
                 /\ UNCHANGED raised
         /\ UNCHANGED <<attempt, cursor, calls>>

\* the consumer starts iterating the generator: last_exception = None and
\* the first pass through the loop head
RetryStart(k) ==
    /\ rpc[k] = "idle"
    /\ LoopHead(k, 0)
    /\ UNCHANGED <<max_retries, base_delay, last_exception, delivered, sleeps>>

\* fetch() produces its next document, which is yielded downstream (line 128)
RetryYield(k) ==
    /\ rpc[k] = "streaming"
    /\ cursor' = [cursor EXCEPT ![k] = @ + 1]
    /\ delivered' = [delivered EXCEPT ![k] = Append(@, Doc(k, cursor[k] + 1))]
    /\ calls' = [calls EXCEPT ![k] = SetLast(@, [@[Len(@)] EXCEPT !.yielded = @ + 1])]
    /\ UNCHANGED <<max_retries, base_delay, rpc, attempt, last_exception, raised, sleeps>>

\* fetch() ends normally (line 129)
RetryComplete(k) ==
    /\ rpc[k] = "streaming"
    /\ CloseCall(k, "ok")
    /\ IF CompletionOutcome(last_exception[k]) = "returned"
       THEN /\ rpc' = [rpc EXCEPT ![k] = "returned"]
            /\ UNCHANGED raised
       ELSE Raise(k, last_exception[k])
    /\ UNCHANGED <<max_retries, base_delay, attempt, last_exception, cursor, delivered, sleeps>>

\* fetch() raises an error of the given kind (lines 131-142)
RetryFail(k, kind) ==
    /\ rpc[k] = "streaming"
    /\ CloseCall(k, kind)
    /\ IF IsTransient(kind)
       THEN /\ last_exception' = [last_exception EXCEPT ![k] = kind]
            /\ IF AttemptsRemain(attempt[k], max_retries[k])
               THEN /\ sleeps' = [sleeps EXCEPT ![k] =
                                    Append(@, BackoffDelay(base_delay[k], attempt[k]))]
                    /\ rpc' = [rpc EXCEPT ![k] = "sleeping"]
                    /\ UNCHANGED raised
               ELSE /\ Raise(k, kind)
                    /\ UNCHANGED sleeps
       ELSE /\ Raise(k, kind)
            /\ UNCHANGED <<last_exception, sleeps>>
    /\ UNCHANGED <<max_retries, base_delay, attempt, cursor, delivered>>

\* asyncio.sleep(delay) returns; continue with the next loop value
RetryWake(k) ==
    /\ rpc[k] = "sleeping"
    /\ LoopHead(k, attempt[k] + 1)
    /\ UNCHANGED <<max_retries, base_delay, last_exception, delivered, sleeps>>

(* ------------------- LoaderExecutor.run_single_loader ----------------- *)
\* (mutation: a run without documents and without errors has rate 1)
SuccessRateEmptyIsOne(p, e) == IF p + e > 0 THEN <<p, p + e>> ELSE <<1, 1>>

\* (mutation: the share of errors instead of the share of documents)
SuccessRateOfErrors(p, e) == IF p + e > 0 THEN <<e, p + e>> ELSE <<0, 1>>

\* lines 169-173: documents_processed / (documents_processed + errors_count),
\* 0 when both are zero; a fraction <<numerator, denominator>>
SuccessRate(p, e) == IF p + e > 0 THEN <<p, p + e>> ELSE <<0, 1>>

\* the record the finally block stores (lines 163-174); the two clock
\* readings start_time and execution_time_seconds are not modelled
StatsRecord(p, e) ==
    [documents_processed |-> p, errors_count |-> e, success_rate |-> SuccessRate(p, e)]

\* (mutation: the progress count is left out of the error)
LoaderExecutionErrorNoProgress(k, kind, p) ==
    [loader_type |-> LoaderType(k), source_key |-> SourceKey(k),
     error_type |-> kind, documents_processed |-> 0]

\* details of the LoaderExecutionError of lines 153-159
LoaderExecutionError(k, kind, p) ==
    [loader_type |-> LoaderType(k), source_key |-> SourceKey(k),
     error_type |-> kind, documents_processed |-> p]

\* details of the LoaderExecutionError of lines 125-129
ExecutorNotFound(k) == [loader_type |-> LoaderType(k), source_key |-> SourceKey(k)]

\* (mutation: the record is stored at the end of the try block only)
StatsAfterRunOnSuccess(stats, k, p, e) ==
    IF e > 0 THEN stats ELSE Put(stats, k, StatsRecord(p, e))

\* (mutation: the counts are added to the record of the previous run)
StatsAfterRunAccumulated(stats, k, p, e) ==
    IF k \in DOMAIN stats
    THEN Put(stats, k, StatsRecord(stats[k].documents_processed + p,
                                   stats[k].errors_count + e))
    ELSE Put(stats, k, StatsRecord(p, e))

\* the finally block, lines 161-174: self.execution_stats[executor_key] = {...}
StatsAfterRun(stats, k, p, e) == Put(stats, k, StatsRecord(p, e))

\* (mutation: the lookup is inside the try block, so the finally block runs)
StatsOnAbsentKeyRecorded(stats, k) == StatsAfterRun(stats, k, 0, 1)

\* lines 124-129: the raise for an absent key comes before the try block of
\* line 136, so the finally block of lines 161-174 does not run
StatsOnAbsentKey(stats, k) == stats

\* What run_single_loader does for executor k once the retry generator has
\* moved: nothing while the stream is open; the except and finally blocks
\* (lines 150-174) when it raised; the finally block when it ended. e is the
\* value of errors_count before this step.
RunSingleStep(k, e) ==
    LET p == documents_processed'[k] IN
    CASE rpc'[k] = "returned" ->
           /\ errors_count' = [errors_count EXCEPT ![k] = e]
           /\ UNCHANGED loader_error
           /\ execution_stats' = StatsAfterRun(execution_stats, k, p, e)
           /\ finished' = [finished EXCEPT ![k] =
                             Append(@, [yielded |-> Len(delivered'[k]), failed |-> FALSE])]
      [] rpc'[k] = "raised" ->
           /\ errors_count' = [errors_count EXCEPT ![k] = e + 1]
           /\ loader_error' = [loader_error EXCEPT ![k] =
                                 LoaderExecutionError(k, raised'[k], p)]
           /\ execution_stats' = StatsAfterRun(execution_stats, k, p, e + 1)
           /\ finished' = [finished EXCEPT ![k] =
                             Append(@, [yielded |-> Len(delivered'[k]), failed |-> TRUE])]
      [] OTHER ->
           /\ errors_count' = [errors_count EXCEPT ![k] = e]
           /\ UNCHANGED <<loader_error, execution_stats, finished>>

(* ------------------- LoaderExecutor.run_all_loaders ------------------- *)
\* (mutation: a slot is granted at value 0 too)
CanAcquireAtZero(value) == value >= 0

\* (mutation: the backoff uses time.sleep, which holds the event loop)
BlockedBySleepSync(k) == \E j \in Keys \ {k} : rpc[j] = "sleeping"

\* base.py line 135: "await asyncio.sleep(delay)" suspends only the task
\* that sleeps; the event loop stays free to run any other task k
BlockedBySleep(k) == FALSE

\* (mutation: acquire never waits)
CanAcquireAlways(value) == TRUE

\* asyncio.Semaphore.acquire does not wait when the value is positive
CanAcquire(value) == value > 0

\* (mutation: leaving the "async with" block keeps the slot)
ReleaseKept(value) == value

\* the exit of "async with semaphore" (line 207): Semaphore.release
Release(value) == value + 1

\* (mutation: the last document a failed loader yielded is kept)
FailureResultLast(docs) == IF docs = <<>> THEN <<>> ELSE <<docs[Len(docs)]>>

\* (mutation: the partial list is kept for a failed loader)
FailureResultPartial(docs) == docs

\* line 221: results[executor_key] = []
FailureResult(docs) == <<>>

\* (mutation: a failure resets the whole result map)
ResultsOnFailureReset(res, k, docs) == [x \in (DOMAIN res) \cup {k} |-> <<>>]

\* lines 218-221: only the failed loader's entry is written
ResultsOnFailure(res, k, docs) == Put(res, k, FailureResult(docs))

\* (mutation: raise as soon as one loader failed)
AnyFailed(failed, registry) == Len(failed) > 0

\* line 237: if len(failed_loaders) == len(self.executors)
AllFailed(failed, registry) == Len(failed) = Cardinality(registry)

\* What the task of executor k does once the retry generator has moved:
\* nothing while the stream is open; on completion the finally block of
\* run_single_loader, lines 216 or 218-221 of run_loader_with_semaphore and
\* the release of the semaphore. sem and e are the values of the semaphore
\* and of errors_count before this step.
TaskStep(k, sem, e) ==
    /\ RunSingleStep(k, e)
    /\ CASE rpc'[k] = "returned" ->
             /\ results' = Put(results, k, documents'[k])
             /\ UNCHANGED failed_loaders
             /\ semaphore' = Release(sem)
             /\ tpc' = [tpc EXCEPT ![k] = "done"]
        [] rpc'[k] = "raised" ->
             /\ failed_loaders' = Append(failed_loaders, k)
             /\ results' = ResultsOnFailure(results, k, documents'[k])
             /\ semaphore' = Release(sem)
             /\ tpc' = [tpc EXCEPT ![k] = "done"]
        [] OTHER ->
             /\ semaphore' = sem
             /\ tpc' = [tpc EXCEPT ![k] = "running"]
             /\ UNCHANGED <<results, failed_loaders>>

\* run_all_loaders up to the gather (lines 196-230)
RunAllStart ==
    /\ run_all_pc = "idle"
    /\ IF executors = {}
       THEN /\ run_all_pc' = "done"
            /\ run_all_outcome' = [kind |-> "returned", value |-> <<>>]
            /\ UNCHANGED <<semaphore, results, failed_loaders, tpc>>
       ELSE IF max_concurrent < 0
       THEN \* asyncio.Semaphore(value) raises ValueError for value < 0
            /\ run_all_pc' = "done"
            /\ run_all_outcome' = [kind |-> "ValueError", value |-> None]
            /\ UNCHANGED <<semaphore, results, failed_loaders, tpc>>
       ELSE /\ semaphore' = max_concurrent
            /\ results' = <<>>
            /\ failed_loaders' = <<>>
            /\ tpc' = [k \in Keys |-> IF k \in executors THEN "waiting" ELSE "none"]
            /\ run_all_pc' = "gathering"
            /\ UNCHANGED run_all_outcome
    /\ UNCHANGED <<executors, execution_stats, max_concurrent, documents,
                   documents_processed, errors_count, loader_error, finished>>
    /\ UNCHANGED <<retryVars, callerVars>>

\* a task passes "async with semaphore" and runs up to its first suspension:
\* lines 207-208, run_single_loader lines 122-139, execute, the loop head
Admit(k) ==
    /\ run_all_pc = "gathering"
    /\ ~BlockedBySleep(k)
    /\ tpc[k] = "waiting"
    /\ CanAcquire(semaphore)
    /\ RetryStart(k)
    /\ documents' = [documents EXCEPT ![k] = <<>>]
    /\ documents_processed' = [documents_processed EXCEPT ![k] = 0]
    /\ TaskStep(k, semaphore - 1, 0)
    /\ UNCHANGED <<executors, max_concurrent, run_all_pc, run_all_outcome>>
    /\ UNCHANGED callerVars

\* number of documents the sources of the keys in S have yielded so far
RECURSIVE TotalDelivered(_)
TotalDelivered(S) ==
    IF S = {} THEN 0
    ELSE LET k == CHOOSE x \in S : TRUE
         IN Len(delivered[k]) + TotalDelivered(S \ {k})

\* a document travels fetch -> execute_with_retry -> execute ->
\* run_single_loader (line 140) -> run_loader_with_semaphore (line 214)
Yield(k) ==
    /\ ~BlockedBySleep(k)
    /\ tpc[k] = "running"
    /\ TotalDelivered(Keys) < MaxDocs
    /\ RetryYield(k)
    /\ documents_processed' = [documents_processed EXCEPT ![k] = @ + 1]
    /\ documents' = [documents EXCEPT ![k] =
                       Append(@, delivered'[k][Len(delivered'[k])])]
    /\ TaskStep(k, semaphore, errors_count[k])
    /\ UNCHANGED <<executors, max_concurrent, run_all_pc, run_all_outcome>>
    /\ UNCHANGED callerVars

Complete(k) ==
    /\ ~BlockedBySleep(k)
    /\ tpc[k] = "running"
    /\ RetryComplete(k)
    /\ UNCHANGED <<documents, documents_processed>>
    /\ TaskStep(k, semaphore, errors_count[k])
    /\ UNCHANGED <<executors, max_concurrent, run_all_pc, run_all_outcome>>
    /\ UNCHANGED callerVars

Fail(k, kind) ==
    /\ ~BlockedBySleep(k)
    /\ tpc[k] = "running"
    /\ RetryFail(k, kind)
    /\ UNCHANGED <<documents, documents_processed>>
    /\ TaskStep(k, semaphore, errors_count[k])
    /\ UNCHANGED <<executors, max_concurrent, run_all_pc, run_all_outcome>>
    /\ UNCHANGED callerVars

Wake(k) ==
    /\ tpc[k] = "running"
    /\ RetryWake(k)
    /\ UNCHANGED <<documents, documents_processed>>
    /\ TaskStep(k, semaphore, errors_count[k])
    /\ UNCHANGED <<executors, max_concurrent, run_all_pc, run_all_outcome>>
    /\ UNCHANGED callerVars

\* gather has returned: lines 232-246
RunAllFinish ==
    /\ run_all_pc = "gathering"
    /\ \A k \in executors : tpc[k] = "done"
    /\ run_all_pc' = "done"
    /\ IF failed_loaders # <<>> /\ AllFailed(failed_loaders, executors)
       THEN run_all_outcome' = [kind |-> "ConcurrentExecutionError",
                                value |-> failed_loaders]
       ELSE run_all_outcome' = [kind |-> "returned", value |-> results]
    /\ UNCHANGED <<executors, execution_stats, max_concurrent, semaphore, results,
                   failed_loaders, tpc, documents, documents_processed,
                   errors_count, loader_error, finished>>
    /\ UNCHANGED <<retryVars, callerVars>>

(* ------------------ cancellation of run_all_loaders ------------------- *)
\* the finally block of run_single_loader run by every task of S that is
\* unwound by a CancelledError
RECURSIVE StatsAfterCancel(_, _)
StatsAfterCancel(stats, S) ==
    IF S = {} THEN stats
    ELSE LET k == CHOOSE x \in S : TRUE
         IN StatsAfterCancel(
                StatsAfterRun(stats, k, documents_processed[k], errors_count[k]),
                S \ {k})

\* The task awaiting run_all_loaders is cancelled while it waits in gather
\* (line 230): gather cancels every child task. asyncio.CancelledError is a
\* BaseException: a task waiting for the semaphore just ends; in a task
\* suspended inside fetch() or asyncio.sleep() the error passes the except
\* clauses of execute_with_retry (lines 131, 140), of run_single_loader
\* (line 150) and of run_loader_with_semaphore (line 218), runs the finally
\* block of run_single_loader (lines 161-174) and releases the semaphore.
RunAllCancel ==
    /\ run_all_pc = "gathering"
    /\ LET running == {k \in executors : tpc[k] = "running"}
           pending == {k \in executors : tpc[k] \in {"waiting", "running"}}
       IN /\ tpc' = [k \in Keys |-> IF k \in pending THEN "cancelled" ELSE tpc[k]]
          /\ rpc' = [k \in Keys |-> IF k \in running THEN "cancelled" ELSE rpc[k]]
          /\ execution_stats' = StatsAfterCancel(execution_stats, running)
          /\ semaphore' = semaphore + Cardinality(running)
    /\ run_all_pc' = "done"
    /\ run_all_outcome' = [kind |-> "CancelledError", value |-> None]
    /\ UNCHANGED <<max_retries, base_delay, attempt, last_exception, cursor, raised,
                   delivered, calls, sleeps>>
    /\ UNCHANGED <<executors, max_concurrent, results, failed_loaders, documents,
                   documents_processed, errors_count, loader_error, finished>>
    /\ UNCHANGED callerVars

(* ---------------------- get_execution_stats --------------------------- *)
\* sum(stats[field] for stats in self.execution_stats.values())
RECURSIVE SumField(_, _, _)
SumField(stats, S, field) ==
    IF S = {} THEN 0
    ELSE LET k == CHOOSE x \in S : TRUE
         IN stats[k][field] + SumField(stats, S \ {k}, field)

\* sum(stats["success_rate"] for ...), as a fraction
RECURSIVE SumRates(_, _)
SumRates(stats, S) ==
    IF S = {} THEN <<0, 1>>
    ELSE LET k == CHOOSE x \in S : TRUE
             r == stats[k].success_rate
             rest == SumRates(stats, S \ {k})
         IN <<r[1] * rest[2] + rest[1] * r[2], r[2] * rest[2]>>

\* line 297: the marker returned for an empty stats table
NoStatistics == [message |-> "No execution statistics available"]

\* lines 296-317
get_execution_stats(stats) ==
    IF DOMAIN stats = {}
    THEN NoStatistics
    ELSE LET n == Cardinality(DOMAIN stats)
             total == SumRates(stats, DOMAIN stats)
         IN [summary |->
               [total_loaders |-> n,
                total_documents |-> SumField(stats, DOMAIN stats, "documents_processed"),
                total_errors |-> SumField(stats, DOMAIN stats, "errors_count"),
                average_success_rate |-> <<total[1], total[2] * n>>],
             by_loader |-> stats]

\* a call of get_execution_stats; it is synchronous, so it runs between any
\* two steps of the tasks
GetExecutionStats ==
    /\ stats_report' = get_execution_stats(execution_stats)
    /\ UNCHANGED <<retryVars, orchVars, singleVars, health_report, initVars, extVars>>

(* ----------------------------- health_check -------------------------- *)
\* lines 374-378: the overall status
HealthStatus(healthy, unhealthy) ==
    IF unhealthy > 0
    THEN IF healthy > 0 THEN "degraded" ELSE "unhealthy"
    ELSE "healthy"

\* lines 341-380, failing being the executors whose probe raises
health_check(registry, failing) ==
    LET healthy == Cardinality(registry \ failing)
        unhealthy == Cardinality(registry \cap failing)
    IN [status |-> HealthStatus(healthy, unhealthy),
        executors |-> [k \in registry |->
                         IF k \in failing THEN "unhealthy" ELSE "healthy"],
        summary |-> [total |-> Cardinality(registry),
                     healthy |-> healthy,
                     unhealthy |-> unhealthy]]

\* a call of health_check; the method awaits nothing, so it runs between any
\* two steps of the tasks. The probe of line 360, DateRange(), does not raise
\* as written; the except branch of lines 367-372 is taken when the probe is
\* replaced by one that raises for the executors of failing.
HealthCheck ==
    /\ \E failing \in SUBSET executors :
          health_report' = health_check(executors, failing)
    /\ UNCHANGED <<retryVars, orchVars, singleVars, stats_report, initVars, extVars>>

(* ------------- a caller iterating run_single_loader directly ---------- *)
\* the exception classes of exceptions.py and their base class
ExceptionParent ==
    [c \in {"ContentLoaderError", "ConfigurationError", "ValidationError",
            "SourceConfigurationError", "ExecutionError", "LoaderExecutionError",
            "ConcurrentExecutionError"} |->
        CASE c = "ContentLoaderError" -> "Exception"
          [] c = "ConfigurationError" -> "ContentLoaderError"
          [] c = "ValidationError" -> "ContentLoaderError"
          [] c = "SourceConfigurationError" -> "ConfigurationError"
          [] c = "ExecutionError" -> "ContentLoaderError"
          [] c = "LoaderExecutionError" -> "ExecutionError"
          [] c = "ConcurrentExecutionError" -> "ExecutionError"]

\* isinstance(error of class c, base)
RECURSIVE IsSubclass(_, _)
IsSubclass(c, base) ==
    \/ c = base
    \/ c \in DOMAIN ExceptionParent /\ IsSubclass(ExceptionParent[c], base)

\* the variables of run_all_loaders, which a run_single_loader call leaves alone
runAllVars == <<max_concurrent, run_all_pc, run_all_outcome, semaphore, results,
                failed_loaders, tpc, documents>>

(* ------------------ construction of the LoaderExecutor ---------------- *)
\* models.py SourceType
SourceTypes == {"slack", "github", "confluence"}

\* the LoaderSource records a source list is made of
SourceRecords ==
    {[source_type |-> LoaderType(k), source_key |-> SourceKey(k), enabled |-> b] :
        k \in Keys, b \in BOOLEAN}

SourceLists == UNION {[1..n -> SourceRecords] : n \in 0..MaxSources}

\* line 51: executor_key = f"{source.source_type.value}:{source.source_key}"
ExecutorKey(source) ==
    CHOOSE k \in Keys : /\ LoaderType(k) = source.source_type
                        /\ SourceKey(k) = source.source_key

\* lines 48-49: if not source.enabled: continue
Skipped(source) == ~source.enabled

\* _create_executor (lines 70-101): each branch of the if/elif chain is
\* "pass", so every source type reaches the raise of line 101
CreateExecutor(source) ==
    IF source.source_type \in SourceTypes
    THEN [kind |-> "raised", error |-> "ConfigurationError"]
    ELSE [kind |-> "raised", error |-> "ConfigurationError"]

unchangedByInit == <<retryVars, execution_stats, runAllVars, documents_processed,
                     errors_count, loader_error, finished, singleVars, reportVars,
                     sources, extVars>>

\* one iteration of the loop of _initialize_executors over a disabled source
InitializeSkip ==
    /\ init_pc = "running"
    /\ init_pos <= Len(sources)
    /\ Skipped(sources[init_pos])
    /\ init_pos' = init_pos + 1
    /\ UNCHANGED <<init_pc, executors, unchangedByInit>>

\* one iteration over an enabled source: lines 51-68
InitializeCreate ==
    /\ init_pc = "running"
    /\ init_pos <= Len(sources)
    /\ ~Skipped(sources[init_pos])
    /\ LET executor == CreateExecutor(sources[init_pos])
       IN IF executor.kind = "returned"
          THEN /\ executors' = executors \cup {ExecutorKey(sources[init_pos])}
               /\ init_pos' = init_pos + 1
               /\ UNCHANGED init_pc
          ELSE \* except Exception: raise ConfigurationError (lines 58-68)
               /\ init_pc' = "raised"
               /\ UNCHANGED <<executors, init_pos>>
    /\ UNCHANGED unchangedByInit

\* the loop is over: __init__ returns
InitializeDone ==
    /\ init_pc = "running"
    /\ init_pos > Len(sources)
    /\ init_pc' = "done"
    /\ UNCHANGED <<init_pos, executors, unchangedByInit>>

\* what the caller's "async for" sees once the generator has moved
CallerStep(k) ==
    CASE rpc'[k] = "returned" ->
           /\ single_pc' = "ended"
           /\ single_outcome' = [kind |-> "completed", details |-> None]
      [] rpc'[k] = "raised" ->
           /\ single_pc' = "ended"
           /\ single_outcome' = [kind |-> "LoaderExecutionError",
                                 details |-> loader_error'[k]]
      [] OTHER ->
           /\ single_pc' = "streaming"
           /\ UNCHANGED single_outcome

\* run_single_loader(loader_type, source_key) is called: an async generator
\* object is returned, none of its code has run yet
SingleCall(k) ==
    /\ single_pc = "idle"
    /\ runs < MaxRuns
    /\ single_pc' = "created"
    /\ single_key' = k
    /\ single_outcome' = [kind |-> "none", details |-> None]
    /\ runs' = runs + 1
    /\ UNCHANGED <<retryVars, orchVars, reportVars, initVars, extVars>>

\* first iteration of the generator: lines 122-139 up to the first
\* suspension inside fetch()
SingleFirst ==
    /\ single_pc = "created"
    /\ LET k == single_key IN
       IF k \notin executors
       THEN \* lines 124-129, before the try block
            /\ single_pc' = "ended"
            /\ single_outcome' = [kind |-> "LoaderExecutionError",
                                  details |-> ExecutorNotFound(k)]
            /\ execution_stats' = StatsOnAbsentKey(execution_stats, k)
            /\ UNCHANGED <<retryVars, executors, runAllVars, documents_processed,
                           errors_count, loader_error, finished>>
       ELSE /\ RetryStart(k)
            /\ documents_processed' = [documents_processed EXCEPT ![k] = 0]
            /\ RunSingleStep(k, 0)
            /\ CallerStep(k)
            /\ UNCHANGED <<executors, runAllVars>>
    /\ UNCHANGED <<single_key, runs, reportVars, initVars, extVars>>

\* a document travels fetch -> execute_with_retry -> execute ->
\* run_single_loader (lines 140-141) -> the caller
SingleYield ==
    /\ single_pc = "streaming"
    /\ Len(delivered[single_key]) < MaxDocs
    /\ RetryYield(single_key)
    /\ documents_processed' = [documents_processed EXCEPT ![single_key] = @ + 1]
    /\ RunSingleStep(single_key, errors_count[single_key])
    /\ CallerStep(single_key)
    /\ UNCHANGED <<executors, runAllVars, single_key, runs, reportVars, initVars, extVars>>

SingleComplete ==
    /\ single_pc = "streaming"
    /\ RetryComplete(single_key)
    /\ UNCHANGED documents_processed
    /\ RunSingleStep(single_key, errors_count[single_key])
    /\ CallerStep(single_key)
    /\ UNCHANGED <<executors, runAllVars, single_key, runs, reportVars, initVars, extVars>>

SingleFail(kind) ==
    /\ single_pc = "streaming"
    /\ RetryFail(single_key, kind)
    /\ UNCHANGED documents_processed
    /\ RunSingleStep(single_key, errors_count[single_key])
    /\ CallerStep(single_key)
    /\ UNCHANGED <<executors, runAllVars, single_key, runs, reportVars, initVars, extVars>>

SingleWake ==
    /\ single_pc = "streaming"
    /\ RetryWake(single_key)
    /\ UNCHANGED documents_processed
    /\ RunSingleStep(single_key, errors_count[single_key])
    /\ CallerStep(single_key)
    /\ UNCHANGED <<executors, runAllVars, single_key, runs, reportVars, initVars, extVars>>

\* the caller has seen the end of the stream and drops the generator: its
\* frames (execute_with_retry, run_single_loader) and their locals are gone
SingleDiscard ==
    /\ single_pc = "ended"
    /\ single_pc' = "idle"
    /\ LET k == single_key IN
       /\ rpc' = [rpc EXCEPT ![k] = "idle"]
       /\ attempt' = [attempt EXCEPT ![k] = 0]
       /\ last_exception' = [last_exception EXCEPT ![k] = None]
       /\ cursor' = [cursor EXCEPT ![k] = 0]
       /\ raised' = [raised EXCEPT ![k] = None]
       /\ delivered' = [delivered EXCEPT ![k] = <<>>]
       /\ calls' = [calls EXCEPT ![k] = <<>>]
       /\ sleeps' = [sleeps EXCEPT ![k] = <<>>]
       /\ documents_processed' = [documents_processed EXCEPT ![k] = 0]
       /\ errors_count' = [errors_count EXCEPT ![k] = 0]
       /\ loader_error' = [loader_error EXCEPT ![k] = None]
    /\ UNCHANGED <<max_retries, base_delay, executors, execution_stats, finished,
                   runAllVars, single_key, single_outcome, runs, reportVars, initVars, extVars>>

(* ------------------------- run_loaders_by_type ------------------------ *)
\* (mutation: the type filter is dropped)
MatchesTypeAny(key, t) == TRUE

\* line 263: key.startswith(f"{source_type.value}:"); a key is
\* "<type>:<source_key>" and no SourceType value contains ":", so the prefix
\* matches exactly when the type part of the key is t
MatchesType(key, t) == LoaderType(key) = t

unchangedByType == <<max_retries, base_delay, executors, max_concurrent, run_all_pc,
                     run_all_outcome, semaphore, failed_loaders, tpc, singleVars,
                     reportVars, initVars, dateVars, execVars, batchVars, chunkVars, procVars>>

\* lines 260-269: the matching executors are selected
ByTypeCall(t) ==
    /\ by_type_pc = "idle"
    /\ source_type' = t
    /\ LET matching == {k \in executors : MatchesType(k, t)}
       IN IF matching = {}
          THEN /\ by_type_pc' = "done"
               /\ by_type_outcome' = [kind |-> "returned", value |-> <<>>]
               /\ UNCHANGED <<results, matching_executors>>
          ELSE /\ by_type_pc' = "looping"
               /\ results' = <<>>
               /\ matching_executors' = matching
               /\ UNCHANGED by_type_outcome
    /\ UNCHANGED <<rpc, attempt, last_exception, cursor, raised, delivered, calls,
                   sleeps, execution_stats, documents, documents_processed,
                   errors_count, loader_error, finished, executor_key,
                   unchangedByType>>

\* (mutation: the first failing loader ends the call)
AfterLoaderErrorStop == "done"

\* lines 284-286: the except clause stores [] and the for loop goes on
AfterLoaderError == "looping"

\* what the loop body does once the generator of executor k has moved:
\* line 282 on completion, lines 284-286 on an error, else it stays suspended
ByTypeStep(k) ==
    /\ RunSingleStep(k, IF rpc[k] = "idle" THEN 0 ELSE errors_count[k])
    /\ CASE rpc'[k] = "returned" ->
             /\ results' = Put(results, k, documents'[k])
             /\ by_type_pc' = "looping"
        [] rpc'[k] = "raised" ->
             /\ results' = Put(results, k, <<>>)
             /\ by_type_pc' = AfterLoaderError
        [] OTHER ->
             /\ by_type_pc' = "streaming"
             /\ UNCHANGED results
    /\ UNCHANGED <<source_type, by_type_outcome, unchangedByType>>

\* the for loop takes the next key (lines 273-278): the generator runs up to
\* its first suspension inside fetch(). The order is the insertion order of
\* the registry, which is any order.
ByTypeNext ==
    /\ by_type_pc = "looping"
    /\ \E k \in matching_executors :
          /\ executor_key' = k
          /\ matching_executors' = matching_executors \ {k}
          /\ documents' = [documents EXCEPT ![k] = <<>>]
          /\ documents_processed' = [documents_processed EXCEPT ![k] = 0]
          /\ RetryStart(k)
          /\ ByTypeStep(k)

\* a document reaches line 280
ByTypeYield ==
    /\ by_type_pc = "streaming"
    /\ Len(delivered[executor_key]) < MaxDocs
    /\ RetryYield(executor_key)
    /\ documents_processed' = [documents_processed EXCEPT ![executor_key] = @ + 1]
    /\ documents' = [documents EXCEPT ![executor_key] =
                       Append(@, delivered'[executor_key][Len(delivered'[executor_key])])]
    /\ ByTypeStep(executor_key)
    /\ UNCHANGED <<executor_key, matching_executors>>

ByTypeComplete ==
    /\ by_type_pc = "streaming"
    /\ RetryComplete(executor_key)
    /\ UNCHANGED <<documents, documents_processed, executor_key, matching_executors>>
    /\ ByTypeStep(executor_key)

ByTypeFail(kind) ==
    /\ by_type_pc = "streaming"
    /\ RetryFail(executor_key, kind)
    /\ UNCHANGED <<documents, documents_processed, executor_key, matching_executors>>
    /\ ByTypeStep(executor_key)

ByTypeWake ==
    /\ by_type_pc = "streaming"
    /\ RetryWake(executor_key)
    /\ UNCHANGED <<documents, documents_processed, executor_key, matching_executors>>
    /\ ByTypeStep(executor_key)

\* line 288: the loop is over
ByTypeReturn ==
    /\ by_type_pc = "looping"
    /\ matching_executors = {}
    /\ by_type_pc' = "done"
    /\ by_type_outcome' = [kind |-> "returned", value |-> results]
    /\ UNCHANGED <<rpc, attempt, last_exception, cursor, raised, delivered, calls,
                   sleeps, execution_stats, documents, documents_processed,
                   errors_count, loader_error, finished, executor_key, results,
                   matching_executors, source_type, unchangedByType>>

(* -------------------------------- DateRange --------------------------- *)
\* instants, as whole numbers on the time line
Instants == 0..MaxInstant

\* DateRange(start, end), both optional (lines 20-21)
DateRange(start, end) == [start |-> start, end |-> end]
DateRanges == {DateRange(a, b) : a \in Instants \cup {Unset}, b \in Instants \cup {Unset}}

\* (mutation: the end bound is exclusive)
includesEndExclusive(r, t) ==
    IF r.start # Unset /\ t < r.start THEN FALSE
    ELSE IF r.end # Unset /\ t >= r.end THEN FALSE
    ELSE TRUE

\* DateRange.includes (lines 23-29); a datetime is always truthy, so
\* "self.start and ..." tests whether the bound is set
includes(r, t) ==
    IF r.start # Unset /\ t < r.start THEN FALSE
    ELSE IF r.end # Unset /\ t > r.end THEN FALSE
    ELSE TRUE

\* r.includes(t) is called
Includes ==
    /\ date_pc = "idle"
    /\ date_pc' = "done"
    /\ includes_result' = includes(date_range, target_date)
    /\ UNCHANGED <<date_range, target_date>>
    /\ UNCHANGED <<retryVars, orchVars, singleVars, reportVars, initVars, typeVars,
                   execVars, batchVars, chunkVars, procVars>>

(* -------------------------- BaseExecutor.execute ---------------------- *)
\* the executor whose stream is followed on its own
RetryKey == "slack:general"

\* _should_process_document (lines 87-93), ts being document.updated_at
should_process(ts, r) == IF ts = Unset THEN TRUE ELSE includes(r, ts)

\* (mutation: execute drops the documents should_process rejects)
RelayFiltered(out, doc, ts, r) == IF should_process(ts, r) THEN Append(out, doc) ELSE out

\* lines 84-85: every document of the retry stream is yielded
Relay(out, doc, ts, r) == Append(out, doc)

\* lines 76-77: if not date_range: date_range = DateRange()
DefaultRange(arg) == IF arg = <<>> THEN DateRange(Unset, Unset) ELSE arg[1]

unchangedByExecute == <<orchVars, singleVars, reportVars, initVars, typeVars,
                        target_date, date_pc, includes_result, date_range_arg,
                        updated_at, batchVars, chunkVars, procVars>>

\* the consumer starts iterating execute(date_range): lines 76-84 up to the
\* first suspension inside fetch(date_range)
ExecuteStart ==
    /\ rpc[RetryKey] = "idle"
    /\ date_range' = DefaultRange(date_range_arg)
    /\ RetryStart(RetryKey)
    /\ UNCHANGED <<yielded, unchangedByExecute>>

\* fetch yields its next document, whatever its timestamp
ExecuteYield ==
    /\ cursor[RetryKey] < Len(updated_at)
    /\ RetryYield(RetryKey)
    /\ yielded' = Relay(yielded, Doc(RetryKey, cursor'[RetryKey]),
                        updated_at[cursor'[RetryKey]], date_range)
    /\ UNCHANGED <<date_range, unchangedByExecute>>

ExecuteComplete ==
    RetryComplete(RetryKey) /\ UNCHANGED <<date_range, yielded, unchangedByExecute>>

ExecuteFail(kind) ==
    RetryFail(RetryKey, kind) /\ UNCHANGED <<date_range, yielded, unchangedByExecute>>

ExecuteWake ==
    RetryWake(RetryKey) /\ UNCHANGED <<date_range, yielded, unchangedByExecute>>

(* ------------------- SimpleMemoryManager.process_batch ---------------- *)
\* line 178: batch_size or self.batch_size (None and 0 are falsy)
EffectiveBatchSize(arg, size) == IF arg # <<>> /\ arg[1] # 0 THEN arg[1] ELSE size

\* (mutation: a batch is yielded only once it exceeds the size)
BatchFullLate(b, size) == Len(b) > size

\* line 184: if len(batch) >= effective_batch_size
BatchFull(b, size) == Len(b) >= size

unchangedByBatch == <<retryVars, orchVars, singleVars, reportVars, initVars, typeVars,
                      dateVars, execVars, chunkVars, procVars, self_batch_size,
                      batch_size, documents_stream>>

\* the consumer starts iterating process_batch(...): lines 178-179
BatchStart ==
    /\ batch_pc = "idle"
    /\ batch_pc' = "running"
    /\ effective_batch_size' = EffectiveBatchSize(batch_size, self_batch_size)
    /\ batch' = <<>>
    /\ UNCHANGED <<consumed, batches, unchangedByBatch>>

\* one pass of the async for (lines 181-186): the document is appended and
\* the batch yielded when it is full
BatchDocument ==
    /\ batch_pc = "running"
    /\ consumed < Len(documents_stream)
    /\ consumed' = consumed + 1
    /\ LET filled == Append(batch, documents_stream[consumed + 1])
       IN IF BatchFull(filled, effective_batch_size)
          THEN /\ batches' = Append(batches, filled)
               /\ batch' = <<>>
          ELSE /\ batch' = filled
               /\ UNCHANGED batches
    /\ UNCHANGED <<effective_batch_size, batch_pc, unchangedByBatch>>

\* the stream is exhausted: lines 193-195
BatchEnd ==
    /\ batch_pc = "running"
    /\ consumed = Len(documents_stream)
    /\ batches' = IF batch # <<>> THEN Append(batches, batch) ELSE batches
    /\ batch_pc' = "done"
    /\ UNCHANGED <<consumed, effective_batch_size, batch, unchangedByBatch>>

\* (mutation: the incomplete batch is flushed when the stream fails)
BatchesOnErrorFlushed(list, b) == IF b # <<>> THEN Append(list, b) ELSE list

\* lines 181-186 have no except or finally clause: what was yielded stays
\* yielded, the local batch is dropped with the frame
BatchesOnError(list, b) == list

\* the input stream raises instead of giving its next document or ending
\* (line 181); the error leaves process_batch
BatchFail ==
    /\ batch_pc = "running"
    /\ batches' = BatchesOnError(batches, batch)
    /\ batch_pc' = "raised"
    /\ UNCHANGED <<consumed, effective_batch_size, batch, unchangedByBatch>>

(* ------------------- DocumentProcessor.chunk_document ----------------- *)
Min(a, b) == IF a < b THEN a ELSE b

\* Python s[i:j] for 0 <= i, positions counted from 0
Slice(s, i, j) == SubSeq(s, i + 1, Min(j, Len(s)))

\* str.isspace for one character
isspace(ch) == ch = " "

\* s.rfind(ch): the last position of ch counted from 0, or -1
rfind(s, ch) ==
    IF \E n \in 1..Len(s) : s[n] = ch
    THEN (CHOOSE n \in 1..Len(s) : s[n] = ch /\ \A m \in (n + 1)..Len(s) : s[m] # ch) - 1
    ELSE -1

\* s.strip()
RECURSIVE strip(_)
strip(s) ==
    IF s = <<>> THEN s
    ELSE IF isspace(s[1]) THEN strip(Tail(s))
    ELSE IF isspace(s[Len(s)]) THEN strip(SubSeq(s, 1, Len(s) - 1))
    ELSE s

\* lines 47-57: the slice at offset i, cut at its last space when the slice
\* ends inside a word and that space lies past the middle of the slice
ChunkText(text, i, size) ==
    LET chunk_text == Slice(text, i, i + size)
    IN IF i + size < Len(text) /\ ~isspace(text[i + size + 1])
       THEN LET last_space == rfind(chunk_text, " ")
            IN IF 2 * last_space > size
               THEN Slice(chunk_text, 0, last_space)
               ELSE chunk_text
       ELSE chunk_text

\* (mutation: the chunk is numbered by its offset in the text)
ChunkIndexOffset(list, i) == i

\* lines 60, 63: len(chunks)
ChunkIndex(list, i) == Len(list)

\* ProcessedChunk._generate_content_hash (models.py lines 136-139): the
\* digest of f"{text}|{document_id}|{chunk_index}", kept as the triple it is
\* computed from
content_hash(chunk_text, id, n) == <<chunk_text, id, n>>

\* lines 59-66: ProcessedChunk(...); the id f"{document.id}_chunk_{n}" is
\* kept as its two parts
MakeChunk(doc, n, chunk_text) ==
    [id |-> <<doc.id, "_chunk_", n>>,
     text |-> strip(chunk_text),
     chunk_index |-> n,
     document_id |-> doc.id,
     content_hash |-> content_hash(strip(chunk_text), doc.id, n)]

\* (mutation: a chunk whose trimmed text is empty is left out)
AppendChunkIfText(list, chunk) == IF chunk.text = <<>> THEN list ELSE Append(list, chunk)

\* line 67: chunks.append(chunk), whatever the chunk's text
AppendChunk(list, chunk) == Append(list, chunk)

\* (mutation: an empty text gives one empty chunk)
EmptyTextChunksOne(doc) == <<MakeChunk(doc, 0, <<>>)>>

\* lines 40-42: if not text: return []
EmptyTextChunks(doc) == <<>>

unchangedByChunk == <<retryVars, orchVars, singleVars, reportVars, initVars, typeVars,
                      dateVars, execVars, batchVars, procVars, document, chunk_size>>

\* lines 40-47 up to the head of the for loop; range() raises ValueError for
\* a step of 0
ChunkStart ==
    /\ chunk_pc = "idle"
    /\ IF document.text = <<>>
       THEN /\ chunks' = EmptyTextChunks(document)
            /\ chunk_pc' = "done"
       ELSE /\ chunks' = <<>>
            /\ chunk_pc' = IF chunk_size = 0 THEN "raised" ELSE "looping"
    /\ chunk_i' = 0
    /\ UNCHANGED unchangedByChunk

\* one pass of the loop body (lines 48-67); i then moves on by chunk_size
ChunkNext ==
    /\ chunk_pc = "looping"
    /\ chunk_size > 0 /\ chunk_i < Len(document.text)
    /\ chunks' = AppendChunk(chunks,
                             MakeChunk(document, ChunkIndex(chunks, chunk_i),
                                       ChunkText(document.text, chunk_i, chunk_size)))
    /\ chunk_i' = chunk_i + chunk_size
    /\ UNCHANGED <<chunk_pc, unchangedByChunk>>

\* the range is exhausted (at once for a negative step): lines 69-70
ChunkReturn ==
    /\ chunk_pc = "looping"
    /\ chunk_size < 0 \/ chunk_i >= Len(document.text)
    /\ chunk_pc' = "done"
    /\ UNCHANGED <<chunk_i, chunks, unchangedByChunk>>

\* the for loop of lines 47-67 from offset i on, for size >= 1
RECURSIVE ChunkLoop(_, _, _, _)
ChunkLoop(doc, size, i, list) ==
    IF i >= Len(doc.text) THEN list
    ELSE ChunkLoop(doc, size, i + size,
                   AppendChunk(list, MakeChunk(doc, ChunkIndex(list, i),
                                               ChunkText(doc.text, i, size))))

\* chunk_document(document, chunk_size) as one call, for chunk_size >= 1
chunk_document(doc, size) ==
    IF doc.text = <<>> THEN EmptyTextChunks(doc) ELSE ChunkLoop(doc, size, 0, <<>>)

(* ------------- DocumentProcessor.process_documents / _document -------- *)
\* EmbeddingService.get_embedding_dimension (lines 67-69)
get_embedding_dimension(dimension) ==
    IF dimension = <<>> THEN DefaultDimension ELSE dimension[1]

\* the vector the embedding model computes for one text; the model is a pure
\* function of the text
Encode(text) == [embedding_of |-> text]

\* EmbeddingService.embed_texts (lines 54-59): one vector per text, in order
embed_texts(list) ==
    IF list = <<>> THEN <<>> ELSE [n \in 1..Len(list) |-> Encode(list[n])]

\* ProcessedChunk.to_vector_payload (models.py lines 143-150), the fields of
\* the chunk that the model keeps
to_vector_payload(chunk) ==
    [chunk_id |-> chunk.id,
     text |-> chunk.text,
     chunk_index |-> chunk.chunk_index,
     document_id |-> chunk.document_id,
     content_hash |-> chunk.content_hash]

\* (mutation: the vectors are paired with the chunks in reverse order)
PointsReversed(list, vectors) ==
    [n \in 1..Min(Len(list), Len(vectors)) |->
        [vector |-> vectors[Len(vectors) + 1 - n],
         payload |-> to_vector_payload(list[n])]]

\* VectorStore.store_embeddings lines 87-95: zip(chunks, embeddings); the
\* point id is a fresh uuid4 and is left out
Points(list, vectors) ==
    [n \in 1..Min(Len(list), Len(vectors)) |->
        [vector |-> vectors[n], payload |-> to_vector_payload(list[n])]]

\* (mutation: the point id is derived from the chunk's content hash)
PointIdOfContent(chunk, count, n) == chunk.content_hash

\* vector_store.py line 91: id=str(uuid.uuid4()), an id no earlier call has
\* produced; ids are numbered in the order they are drawn
PointId(chunk, count, n) == count + n

\* the PointStructs of lines 89-95 with their ids; list holds the chunks of
\* the points pts, count the ids drawn so far
PointStructs(pts, list, count) ==
    [n \in DOMAIN pts |->
        [id |-> PointId(list[n], count, n),
         vector |-> pts[n].vector,
         payload |-> pts[n].payload]]

\* client.upsert (vector_store.py line 98): a point replaces the stored point
\* of the same id, if any, and is added otherwise
Upsert(store, pts) ==
    {p \in store : \A n \in DOMAIN pts : pts[n].id # p.id} \cup {pts[n] : n \in DOMAIN pts}

\* a call on a collaborator: op, the document being processed (0 outside
\* process_document), the argument, and whether the call returned
Call(op, pos, arg, ok) == [op |-> op, pos |-> pos, arg |-> arg, ok |-> ok]

\* (mutation: an error in one document ends process_documents)
AfterDocumentErrorAbort == "raised"

\* lines 116-118: except Exception: log, continue
AfterDocumentError == "next"

unchangedByProcess == <<retryVars, orchVars, singleVars, reportVars, initVars, typeVars,
                        dateVars, execVars, batchVars, chunkVars, model_dimension,
                        input_documents>>

\* process_documents lines 103-106: the dimension is read and
\* ensure_collection awaited; ensure_collection re-raises what its client
\* raises (vector_store.py lines 70-72), which ends process_documents
ProcessStart(ok) ==
    /\ process_pc = "idle"
    /\ embedding_dim' = get_embedding_dimension(model_dimension)
    /\ collaborator_calls' =
          Append(collaborator_calls, Call("ensure_collection", 0, embedding_dim', ok))
    /\ processed_count' = 0
    /\ process_pc' = IF ok THEN "next" ELSE "raised"
    /\ UNCHANGED <<proc_pos, proc_chunks, texts, embeddings, handled, points, uuid_count,
                   unchangedByProcess>>

\* line 107: the async for takes the next document
ProcessNext ==
    /\ process_pc = "next"
    /\ proc_pos < Len(input_documents)
    /\ proc_pos' = proc_pos + 1
    /\ process_pc' = "chunk"
    /\ UNCHANGED <<embedding_dim, processed_count, proc_chunks, texts, embeddings,
                   collaborator_calls, handled, points, uuid_count,
                   unchangedByProcess>>

\* the stream is exhausted: line 120
ProcessEnd ==
    /\ process_pc = "next"
    /\ proc_pos = Len(input_documents)
    /\ process_pc' = "done"
    /\ UNCHANGED <<proc_pos, embedding_dim, processed_count, proc_chunks, texts,
                   embeddings, collaborator_calls, handled, points, uuid_count,
                   unchangedByProcess>>

\* process_document lines 81-85: chunk; no chunks, return (and line 110)
ProcessChunk ==
    /\ process_pc = "chunk"
    /\ proc_chunks' = chunk_document(input_documents[proc_pos], DefaultChunkSize)
    /\ IF proc_chunks' = <<>>
       THEN /\ processed_count' = processed_count + 1
            /\ handled' = Append(handled, [pos |-> proc_pos, failed |-> FALSE])
            /\ process_pc' = "next"
       ELSE /\ process_pc' = "embed"
            /\ UNCHANGED <<processed_count, handled>>
    /\ UNCHANGED <<proc_pos, embedding_dim, texts, embeddings, collaborator_calls,
                   points, uuid_count,
                   unchangedByProcess>>

\* process_document lines 88-89
ProcessEmbed ==
    /\ process_pc = "embed"
    /\ texts' = [n \in 1..Len(proc_chunks) |-> proc_chunks[n].text]
    /\ embeddings' = embed_texts(texts')
    /\ collaborator_calls' =
          Append(collaborator_calls, Call("embed_texts", proc_pos, texts', TRUE))
    /\ process_pc' = "store"
    /\ UNCHANGED <<proc_pos, embedding_dim, processed_count, proc_chunks, handled,
                   points, uuid_count,
                   unchangedByProcess>>

\* process_document line 92 with store_embeddings (vector_store.py lines
\* 83-99): ValueError on unequal lengths, else one upsert of the points;
\* then line 110
ProcessStore ==
    /\ process_pc = "store"
    /\ IF Len(proc_chunks) # Len(embeddings)
       THEN /\ handled' = Append(handled, [pos |-> proc_pos, failed |-> TRUE])
            /\ process_pc' = AfterDocumentError
            /\ UNCHANGED <<collaborator_calls, processed_count, points, uuid_count>>
       ELSE /\ collaborator_calls' =
                  Append(collaborator_calls,
                         Call("upsert", proc_pos, Points(proc_chunks, embeddings), TRUE))
            /\ points' = Upsert(points, PointStructs(Points(proc_chunks, embeddings),
                                                     proc_chunks, uuid_count))
            /\ uuid_count' = uuid_count + Len(proc_chunks)
            /\ processed_count' = processed_count + 1
            /\ handled' = Append(handled, [pos |-> proc_pos, failed |-> FALSE])
            /\ process_pc' = "next"
    /\ UNCHANGED <<proc_pos, embedding_dim, proc_chunks, texts, embeddings,
                   unchangedByProcess>>

\* an Exception out of process_document, raised while the chunks of a
\* non-empty text are built, by embed_texts or by the client's upsert
\* (re-raised at vector_store.py lines 101-103): lines 116-118
ProcessFail ==
    /\ process_pc \in {"chunk", "embed", "store"}
    /\ process_pc = "chunk" => input_documents[proc_pos].text # <<>>
    /\ collaborator_calls' =
          CASE process_pc = "chunk" -> collaborator_calls
            [] process_pc = "embed" ->
                  Append(collaborator_calls,
                         Call("embed_texts", proc_pos,
                              [n \in 1..Len(proc_chunks) |-> proc_chunks[n].text], FALSE))
            [] process_pc = "store" ->
                  Append(collaborator_calls,
                         Call("upsert", proc_pos, Points(proc_chunks, embeddings), FALSE))
    \* the point ids are drawn before the client is called
    /\ uuid_count' = IF process_pc = "store" THEN uuid_count + Len(proc_chunks)
                     ELSE uuid_count
    /\ UNCHANGED points
    /\ handled' = Append(handled, [pos |-> proc_pos, failed |-> TRUE])
    /\ process_pc' = AfterDocumentError
    /\ UNCHANGED <<proc_pos, embedding_dim, processed_count, proc_chunks, texts,
                   embeddings, unchangedByProcess>>

(* --------------------------- specifications --------------------------- *)
InitRetryStateOver(K, m, b) ==
    /\ max_retries = [k \in K |-> m]
    /\ base_delay = [k \in K |-> b]
    /\ rpc = [k \in K |-> "idle"]
    /\ attempt = [k \in K |-> 0]
    /\ last_exception = [k \in K |-> None]
    /\ cursor = [k \in K |-> 0]
    /\ raised = [k \in K |-> None]
    /\ delivered = [k \in K |-> <<>>]
    /\ calls = [k \in K |-> <<>>]
    /\ sleeps = [k \in K |-> <<>>]

InitRetryState(m, b) == InitRetryStateOver(Keys, m, b)

InitCoreOver(K, registry, mc) ==
    /\ executors = registry
    /\ execution_stats = <<>>
    /\ max_concurrent = mc
    /\ run_all_pc = "idle"
    /\ run_all_outcome = [kind |-> "none", value |-> None]
    /\ semaphore = 0
    /\ results = <<>>
    /\ failed_loaders = <<>>
    /\ tpc = [k \in K |-> "none"]
    /\ documents = [k \in K |-> <<>>]
    /\ documents_processed = [k \in K |-> 0]
    /\ errors_count = [k \in K |-> 0]
    /\ loader_error = [k \in K |-> None]
    /\ finished = [k \in K |-> <<>>]
    /\ single_pc = "idle"
    /\ single_key = None
    /\ single_outcome = [kind |-> "none", details |-> None]
    /\ runs = 0
    /\ stats_report = NoReport
    /\ health_report = NoReport

\* no run_loaders_by_type call has been made
InitTypeIdle ==
    /\ by_type_pc = "idle"
    /\ source_type = None
    /\ matching_executors = {}
    /\ executor_key = None
    /\ by_type_outcome = [kind |-> "none", value |-> None]

\* no DateRange is in use
InitDateIdle ==
    /\ date_range = [start |-> Unset, end |-> Unset]
    /\ target_date = 0
    /\ date_pc = "idle"
    /\ includes_result = FALSE

\* execute is not followed
InitExecIdle ==
    /\ date_range_arg = <<>>
    /\ updated_at = <<>>
    /\ yielded = <<>>

\* process_batch has not been called
InitBatchState(size, arg, stream) ==
    /\ self_batch_size = size
    /\ batch_size = arg
    /\ documents_stream = stream
    /\ consumed = 0
    /\ effective_batch_size = 0
    /\ batch = <<>>
    /\ batches = <<>>
    /\ batch_pc = "idle"

InitBatchIdle == InitBatchState(DefaultBatchSize, <<>>, <<>>)

\* chunk_document has not been called
InitChunkState(doc, size) ==
    /\ document = doc
    /\ chunk_size = size
    /\ chunk_i = 0
    /\ chunks = <<>>
    /\ chunk_pc = "idle"

InitChunkIdle == InitChunkState([id |-> "doc1", text |-> <<>>], DefaultChunkSize)

\* process_documents has not been called
InitProcState(dimension, stream) ==
    /\ model_dimension = dimension
    /\ input_documents = stream
    /\ proc_pos = 0
    /\ embedding_dim = Unset
    /\ processed_count = 0
    /\ proc_chunks = <<>>
    /\ texts = <<>>
    /\ embeddings = <<>>
    /\ process_pc = "idle"
    /\ collaborator_calls = <<>>
    /\ handled = <<>>
    /\ points = {}
    /\ uuid_count = 0

InitProcIdle == InitProcState(<<>>, <<>>)

InitExtIdle ==
    /\ InitTypeIdle /\ InitDateIdle /\ InitExecIdle /\ InitBatchIdle
    /\ InitChunkIdle /\ InitProcIdle

InitRunState(registry, mc) == InitCoreOver(Keys, registry, mc) /\ InitExtIdle

\* a LoaderExecutor constructed without sources whose registry was then
\* filled with the executors of registry
InitOrchState(registry, mc) ==
    /\ InitRunState(registry, mc)
    /\ sources = <<>>
    /\ init_pc = "done"
    /\ init_pos = 1

\* a LoaderExecutor over any registry, every executor with the handler
\* BaseExecutor.__init__ gives it, and one run_all_loaders call
Init ==
    /\ InitRetryState(DefaultMaxRetries, DefaultBaseDelay)
    /\ \E registry \in SUBSET Keys : \E mc \in -1..MaxConcurrent :
          InitOrchState(registry, mc)

Next ==
    \/ RunAllStart
    \/ \E k \in Keys : Admit(k)
    \/ \E k \in Keys : Yield(k)
    \/ \E k \in Keys : Complete(k)
    \/ \E k \in Keys : \E kind \in RunAllErrorKinds : Fail(k, kind)
    \/ \E k \in Keys : Wake(k)
    \/ RunAllFinish

Spec == Init /\ [][Next]_vars

\* the asyncio event loop runs every task that is ready, a backoff timer
\* expires, and every source stream goes on to its next document, its end or
\* an error
Fairness ==
    /\ WF_vars(RunAllFinish)
    /\ \A k \in Keys :
          /\ WF_vars(Admit(k))
          /\ WF_vars(Yield(k) \/ Complete(k) \/ \E kind \in RunAllErrorKinds : Fail(k, kind))
          /\ WF_vars(Wake(k))

\* run_all_loaders over a full registry whose executors were given a
\* SimpleRetryHandler(max_retries=2), under the event loop's scheduling
InitLive ==
    /\ InitRetryState(2, DefaultBaseDelay)
    /\ \E mc \in 0..MaxConcurrent : InitOrchState(Keys, mc)

SpecLive == InitLive /\ [][Next]_vars /\ Fairness

\* one SimpleRetryHandler(max_retries, base_delay) whose stream is consumed
\* directly

InitRetry ==
    /\ \E m \in -1..MaxRetries : \E b \in BaseDelays : InitRetryState(m, b)
    /\ InitOrchState({}, 0)

StreamStart == RetryStart(RetryKey) /\ UNCHANGED <<orchVars, callerVars>>
StreamYield ==
    cursor[RetryKey] < MaxItems /\ RetryYield(RetryKey) /\ UNCHANGED <<orchVars, callerVars>>
StreamComplete == RetryComplete(RetryKey) /\ UNCHANGED <<orchVars, callerVars>>
StreamFail ==
    (\E kind \in ErrorKinds : RetryFail(RetryKey, kind)) /\ UNCHANGED <<orchVars, callerVars>>
StreamWake == RetryWake(RetryKey) /\ UNCHANGED <<orchVars, callerVars>>

NextRetry ==
    \/ StreamStart
    \/ StreamYield
    \/ StreamComplete
    \/ StreamFail
    \/ StreamWake

SpecRetry == InitRetry /\ [][NextRetry]_vars

\* one run_all_loaders call that its caller may cancel while it is gathering
NextCancel ==
    \/ RunAllStart
    \/ \E k \in Keys : Admit(k)
    \/ \E k \in Keys : Yield(k)
    \/ \E k \in Keys : Complete(k)
    \/ \E k \in Keys : \E kind \in RunAllErrorKinds : Fail(k, kind)
    \/ \E k \in Keys : Wake(k)
    \/ RunAllFinish
    \/ RunAllCancel

SpecCancel == Init /\ [][NextCancel]_vars

\* a run_all_loaders call that may be cancelled, with get_execution_stats
\* and health_check called at any moment before, during or after it
NextReport ==
    \/ RunAllStart
    \/ \E k \in Keys : Admit(k)
    \/ \E k \in Keys : Yield(k)
    \/ \E k \in Keys : Complete(k)
    \/ \E k \in Keys : \E kind \in RunAllErrorKinds : Fail(k, kind)
    \/ \E k \in Keys : Wake(k)
    \/ RunAllFinish
    \/ RunAllCancel
    \/ GetExecutionStats
    \/ HealthCheck

SpecReport == Init /\ [][NextReport]_vars

\* a LoaderExecutor over any registry of TypeKeys and one
\* run_loaders_by_type call for any source type
InitByType ==
    /\ InitRetryStateOver(TypeKeys, DefaultMaxRetries, DefaultBaseDelay)
    /\ \E registry \in SUBSET TypeKeys : InitCoreOver(TypeKeys, registry, 0)
    /\ InitExtIdle
    /\ sources = <<>>
    /\ init_pc = "done"
    /\ init_pos = 1

NextByType ==
    \/ \E t \in SourceTypes : ByTypeCall(t)
    \/ ByTypeNext
    \/ ByTypeYield
    \/ ByTypeComplete
    \/ \E kind \in RunAllErrorKinds : ByTypeFail(kind)
    \/ ByTypeWake
    \/ ByTypeReturn

SpecByType == InitByType /\ [][NextByType]_vars

\* any DateRange and any instant
InitDateRange ==
    /\ InitRetryState(DefaultMaxRetries, DefaultBaseDelay)
    /\ InitCoreOver(Keys, {}, 0)
    /\ sources = <<>> /\ init_pc = "done" /\ init_pos = 1
    /\ InitTypeIdle /\ InitExecIdle /\ InitBatchIdle /\ InitChunkIdle /\ InitProcIdle
    /\ date_range \in DateRanges
    /\ target_date \in Instants
    /\ date_pc = "idle"
    /\ includes_result = FALSE

NextDateRange == Includes

SpecDateRange == InitDateRange /\ [][NextDateRange]_vars

\* the date_range arguments execute is called with: none, an unbounded range
\* and the range that holds instant 1 only
ExecuteRanges == {<<>>, <<DateRange(Unset, Unset)>>, <<DateRange(1, 1)>>}

\* timestamps of the documents of a source: none, before the range, in it
Timestamps == {Unset, 0, 1}

\* one executor with the handler BaseExecutor.__init__ gives it (line 46),
\* whose source holds MaxItems documents, and one execute call
InitExecute ==
    /\ InitRetryState(DefaultMaxRetries, DefaultBaseDelay)
    /\ InitCoreOver(Keys, {RetryKey}, 0)
    /\ sources = <<>> /\ init_pc = "done" /\ init_pos = 1
    /\ InitTypeIdle /\ InitDateIdle /\ InitBatchIdle /\ InitChunkIdle /\ InitProcIdle
    /\ date_range_arg \in ExecuteRanges
    /\ updated_at \in [1..MaxItems -> Timestamps]
    /\ yielded = <<>>

NextExecute ==
    \/ ExecuteStart
    \/ ExecuteYield
    \/ ExecuteComplete
    \/ \E kind \in RunAllErrorKinds : ExecuteFail(kind)
    \/ ExecuteWake

SpecExecute == InitExecute /\ [][NextExecute]_vars

\* streams of at most MaxStream documents, a document being its id
BatchDocuments == {1, 2}
DocumentStreams == UNION {[1..n -> BatchDocuments] : n \in 0..MaxStream}

\* a SimpleMemoryManager(batch_size) and one process_batch(stream, batch_size)
InitBatch ==
    /\ InitRetryState(DefaultMaxRetries, DefaultBaseDelay)
    /\ InitCoreOver(Keys, {}, 0)
    /\ sources = <<>> /\ init_pc = "done" /\ init_pos = 1
    /\ InitTypeIdle /\ InitDateIdle /\ InitExecIdle /\ InitChunkIdle /\ InitProcIdle
    /\ \E size \in 0..MaxBatch :
       \E arg \in {<<>>} \cup {<<n>> : n \in 0..MaxBatch} :
       \E stream \in DocumentStreams : InitBatchState(size, arg, stream)

NextBatch ==
    \/ BatchStart
    \/ BatchDocument
    \/ BatchEnd
    \/ BatchFail

SpecBatch == InitBatch /\ [][NextBatch]_vars

\* texts of at most MaxText characters over two letters and the space
Characters == {"a", "b", " "}
Texts == UNION {[1..n -> Characters] : n \in 0..MaxText}

\* chunk_document(document, chunk_size) for any text and any chunk size
InitChunk ==
    /\ InitRetryState(DefaultMaxRetries, DefaultBaseDelay)
    /\ InitCoreOver(Keys, {}, 0)
    /\ sources = <<>> /\ init_pc = "done" /\ init_pos = 1
    /\ InitTypeIdle /\ InitDateIdle /\ InitExecIdle /\ InitBatchIdle /\ InitProcIdle
    /\ \E text \in Texts : \E size \in -1..MaxChunk :
          InitChunkState([id |-> "doc1", text |-> text], size)

NextChunk ==
    \/ ChunkStart
    \/ ChunkNext
    \/ ChunkReturn

SpecChunk == InitChunk /\ [][NextChunk]_vars

\* one letter per chunk of a long text
ChunkLetters == <<"a", "b", "c", "d">>
\* a text of n full chunks at the default chunk size, each of one letter
LongText(n) ==
    [k \in 1..(n * DefaultChunkSize) |-> ChunkLetters[((k - 1) \div DefaultChunkSize) + 1]]
\* the empty text, a blank text, and texts of 1..MaxChunksPerDoc chunks
ProcessTexts == {<<>>, <<" ">>} \cup {LongText(n) : n \in 1..MaxChunksPerDoc}
DocumentIds == <<"doc1", "doc2", "doc3", "doc4", "doc5", "doc6">>
\* one document per text, its id chosen by the text
ProcessDocument(text) ==
    [id |-> DocumentIds[IF text = <<>> THEN 1
                        ELSE IF Len(text) = 1 THEN 2
                        ELSE 2 + (Len(text) \div DefaultChunkSize)],
     text |-> text]
\* streams of at most MaxDocs documents; a stream may deliver a document
\* more than once, as it does after a retry
ProcessStreams ==
    UNION {{[n \in 1..len |-> ProcessDocument(ts[n])] :
              ts \in [1..len -> ProcessTexts]} : len \in 0..MaxDocs}

\* process_documents(documents) for any stream, on fresh collaborators
InitProcess ==
    /\ InitRetryState(DefaultMaxRetries, DefaultBaseDelay)
    /\ InitCoreOver(Keys, {}, 0)
    /\ sources = <<>> /\ init_pc = "done" /\ init_pos = 1
    /\ InitTypeIdle /\ InitDateIdle /\ InitExecIdle /\ InitBatchIdle /\ InitChunkIdle
    /\ \E dimension \in {<<>>, <<768>>} : \E stream \in ProcessStreams :
          InitProcState(dimension, stream)

NextProcess ==
    \/ \E ok \in BOOLEAN : ProcessStart(ok)
    \/ ProcessNext
    \/ ProcessEnd
    \/ ProcessChunk
    \/ ProcessEmbed
    \/ ProcessStore
    \/ ProcessFail

SpecProcess == InitProcess /\ [][NextProcess]_vars

\* LoaderExecutor(settings, sources) for any list of sources, at line 43
InitConstruct ==
    /\ InitRetryState(DefaultMaxRetries, DefaultBaseDelay)
    /\ InitRunState({}, 0)
    /\ sources \in SourceLists
    /\ init_pc = "running"
    /\ init_pos = 1

NextInit ==
    \/ InitializeSkip
    \/ InitializeCreate
    \/ InitializeDone

SpecInit == InitConstruct /\ [][NextInit]_vars

\* a LoaderExecutor over any registry whose run_single_loader is called for
\* any configured source, registered or not, one stream after the other
InitSingle ==
    /\ InitRetryState(DefaultMaxRetries, DefaultBaseDelay)
    /\ \E registry \in SUBSET Keys : InitOrchState(registry, 0)

NextSingle ==
    \/ \E k \in Keys : SingleCall(k)
    \/ SingleFirst
    \/ SingleYield
    \/ SingleComplete
    \/ \E kind \in RunAllErrorKinds : SingleFail(kind)
    \/ SingleWake
    \/ SingleDiscard

SpecSingle == InitSingle /\ [][NextSingle]_vars

(* ------------------------------ properties ---------------------------- *)
\* tasks that hold a semaphore slot: admitted and not yet finished
InFlight == {k \in Keys : tpc[k] = "running"}

\* the stream of executor k ended with an error / ended normally
Failed(k) == rpc[k] = "raised"
Succeeded(k) == rpc[k] = "returned"

\* C1: during run_all with max_concurrent = m >= 1, the number of executor
\* runs admitted and not yet finished never exceeds m.
C1_BoundedInFlight ==
    max_concurrent >= 1 => Cardinality(InFlight) <= max_concurrent

\* the gate is full, a further executor waits for a slot
C1_Witness ==
    /\ max_concurrent = 1
    /\ Cardinality(InFlight) = 1
    /\ \E k \in executors : tpc[k] = "waiting"

\* C2: when at least one but not every registered executor fails, run_all
\* returns (does not raise) a map whose key set is the registry's key set,
\* where a failed key maps to the empty list and a successful key maps to
\* the documents its stream delivered.
PartialFailure ==
    /\ \E k \in executors : Failed(k)
    /\ \E k \in executors : ~Failed(k)

RunView(k) ==
    <<tpc[k], rpc[k], attempt[k], cursor[k], delivered[k], documents[k],
      documents_processed[k], errors_count[k],
      IF k \in DOMAIN results THEN results[k] ELSE None,
      IF k \in DOMAIN execution_stats THEN execution_stats[k] ELSE None>>

\* what a finished run of k leaves behind, as a function of k's own stream
OwnResult(k) == IF Failed(k) THEN <<>> ELSE delivered[k]
OwnStats(k) == StatsRecord(Len(delivered[k]), IF Failed(k) THEN 1 ELSE 0)

\* C4: executor runs are isolated. A step in which executor a fails changes
\* nothing of the run of any other executor b, and the result list and the
\* stats record of a finished run depend on that executor's stream only.
C4_Isolation ==
    [][ /\ \A a \in Keys : (Failed(a)' /\ ~Failed(a)) =>
              \A b \in Keys \ {a} : RunView(b)' = RunView(b)
        /\ \A b \in Keys : tpc'[b] = "done" =>
              /\ results'[b] = OwnResult(b)'
              /\ execution_stats'[b] = OwnStats(b)' ]_vars

\* an executor finished successfully with a document although another one
\* had failed while it was running
C4_Witness ==
    \E a, b \in executors :
        /\ a # b
        /\ Failed(a) /\ tpc[a] = "done"
        /\ Succeeded(b) /\ tpc[b] = "done"
        /\ results[b] # <<>>
        /\ failed_loaders = <<a>>
        /\ max_concurrent >= 2

(* ----------------------- retry policy properties ---------------------- *)
Outcomes(k) == {calls[k][i].outcome : i \in 1..Len(calls[k])}
LastCall(k) == calls[k][Len(calls[k])]

\* C5: if the factory fails transiently on its first j invocations
\* (j < max_retries) and invocation j+1 completes, execute_with_retry ends
\* without raising after exactly j+1 invocations and has yielded every item
\* of the successful invocation.
C5_SucceedsAfterTransientFailures ==
    \A k \in Keys : \A i \in 1..Len(calls[k]) :
        ( /\ calls[k][i].outcome = "ok"
          /\ i - 1 < max_retries[k]
          /\ \A j \in 1..(i - 1) : calls[k][j].outcome \in TransientKinds )
        => /\ Len(calls[k]) = i
           /\ rpc[k] = "returned"
           /\ raised[k] = None
           /\ Len(delivered[k]) >= calls[k][i].yielded
           /\ SubSeq(delivered[k], Len(delivered[k]) - calls[k][i].yielded + 1,
                     Len(delivered[k])) = Prefix(k, calls[k][i].yielded)

\* two transient failures, then a third invocation that yields and completes
C5_Witness ==
    \E k \in Keys :
        /\ Len(calls[k]) = 3
        /\ calls[k][1].outcome \in TransientKinds
        /\ calls[k][2].outcome \in TransientKinds
        /\ calls[k][3] = [yielded |-> MaxItems, outcome |-> "ok"]
        /\ rpc[k] = "returned"

\* C6: with max_retries >= 1 and a factory that fails transiently on every
\* invocation, the factory is invoked exactly max_retries times, then the
\* transient error of the last attempt is propagated; the factory is never
\* invoked more than max_retries times.
C6_ExhaustsAfterMaxRetries ==
    \A k \in Keys : max_retries[k] >= 1 =>
        /\ Len(calls[k]) <= max_retries[k]
        /\ (calls[k] # <<>> /\ Outcomes(k) \subseteq TransientKinds) =>
              IF Len(calls[k]) = max_retries[k]
              THEN rpc[k] = "raised" /\ raised[k] = LastCall(k).outcome
              ELSE rpc[k] = "sleeping" /\ raised[k] = None

\* three attempts failed with different transient errors, the last one is
\* the one raised
C6_Witness ==
    \E k \in Keys :
        /\ max_retries[k] = 3
        /\ Len(calls[k]) = 3
        /\ calls[k][1].outcome = "ConnectionError"
        /\ calls[k][2].outcome = "OSError"
        /\ calls[k][3].outcome = "TimeoutError"
        /\ raised[k] = "TimeoutError"

\* C7: an error that is not a connection, timeout or OS-level I/O error is
\* propagated at once, on whichever attempt it occurs: no backoff sleep
\* follows it and the factory is not invoked again.
NonTransientKinds == DataSourceKinds \cup {"ValueError"}

C7_NonTransientNotRetried ==
    \A k \in Keys : \A i \in 1..Len(calls[k]) :
        calls[k][i].outcome \in NonTransientKinds =>
            /\ Len(calls[k]) = i
            /\ rpc[k] = "raised"
            /\ raised[k] = calls[k][i].outcome
            /\ Len(sleeps[k]) = i - 1

\* a rate-limit error on the second attempt, with a third attempt still
\* available
C7_Witness ==
    \E k \in Keys :
        /\ max_retries[k] = 3
        /\ Len(calls[k]) = 2
        /\ calls[k][1].outcome \in TransientKinds
        /\ calls[k][2].outcome = "RateLimitError"
        /\ rpc[k] = "raised"

\* C8: after the transient failure of attempt a (0-indexed) with attempts
\* remaining the policy sleeps base_delay * 2^a before the next attempt;
\* there is exactly one sleep between two consecutive attempts and none
\* after the final attempt failed.
C8_BackoffSchedule ==
    \A k \in Keys :
        /\ \A i \in 1..Len(sleeps[k]) : sleeps[k][i] = base_delay[k] * (2 ^ (i - 1))
        /\ rpc[k] = "sleeping" =>
              /\ Len(sleeps[k]) = Len(calls[k])
              /\ Len(calls[k]) < max_retries[k]
        /\ rpc[k] \in {"streaming", "returned", "raised"} /\ calls[k] # <<>> =>
              Len(sleeps[k]) = Len(calls[k]) - 1
        /\ calls[k] = <<>> => sleeps[k] = <<>>

\* base_delay 3: slept 3 then 6, and the third and final attempt failed
\* without a further sleep
C8_Witness ==
    \E k \in Keys :
        /\ base_delay[k] = 3
        /\ sleeps[k] = <<3, 6>>
        /\ Len(calls[k]) = 3
        /\ rpc[k] = "raised"
        /\ raised[k] \in TransientKinds

\* C9: every sleep between two attempts is strictly positive, whatever
\* base_delay the handler was configured with.
C9_SleepStrictlyPositive ==
    \A k \in Keys : \A i \in 1..Len(sleeps[k]) : sleeps[k][i] > 0

\* the concatenation, in attempt order, of what each invocation yielded
RECURSIVE Replay(_, _)
Replay(k, cs) ==
    IF cs = <<>> THEN <<>>
    ELSE Replay(k, SubSeq(cs, 1, Len(cs) - 1)) \o Prefix(k, cs[Len(cs)].yielded)

\* C10: a retry restarts the stream from the beginning: what is delivered
\* downstream is the concatenation, in attempt order, of the items each
\* attempt yielded, every attempt starting again at the first document.
C10_RestartFromBeginning ==
    \A k \in Keys : delivered[k] = Replay(k, calls[k])

\* the first attempt yielded one document and failed, the second one two
\* and completed: the first document was delivered twice
C10_Witness ==
    \E k \in Keys :
        /\ Len(calls[k]) = 2
        /\ calls[k][1].yielded = 1
        /\ calls[k][2] = [yielded |-> 2, outcome |-> "ok"]
        /\ delivered[k] = <<Doc(k, 1), Doc(k, 1), Doc(k, 2)>>

(* ------------------------- run_single properties ---------------------- *)
\* the stream of the current run_single_loader call has ended, for a
\* registered key
SingleEnded == single_pc = "ended" /\ single_key \in executors

\* C11: run_single for a key that is not in the registry fails with a
\* configuration-class error (ConfigurationError or a subclass).
C11_AbsentKeyConfigurationError ==
    (single_pc = "ended" /\ single_key \notin executors) =>
        IsSubclass(single_outcome.kind, "ConfigurationError")

\* C12: when the stream of a registered executor fails after j documents
\* were yielded to the caller, run_single raises a loader-execution error
\* whose details carry loader_type, source_key, the kind of the original
\* error and documents_processed = j, and the run's error count is 1.
C12_FailureCarriesProgress ==
    (SingleEnded /\ Failed(single_key)) =>
        /\ single_outcome.kind = "LoaderExecutionError"
        /\ single_outcome.details =
              [loader_type |-> LoaderType(single_key),
               source_key |-> SourceKey(single_key),
               error_type |-> LastCall(single_key).outcome,
               documents_processed |-> Len(delivered[single_key])]
        /\ errors_count[single_key] = 1

\* a rate-limit error after two documents
C12_Witness ==
    /\ SingleEnded
    /\ Failed(single_key)
    /\ Len(delivered[single_key]) = 2
    /\ LastCall(single_key).outcome = "RateLimitError"

\* the stats record of a run whose stream yielded n documents
ExpectedStats(n, failed) ==
    [documents_processed |-> n,
     errors_count |-> IF failed THEN 1 ELSE 0,
     success_rate |-> IF failed THEN <<n, n + 1>>
                      ELSE IF n = 0 THEN <<0, 1>> ELSE <<n, n>>]

\* C13: whenever the stream of a run_single call for a registered key ends,
\* by completion or by raising, the stats table already holds the record of
\* that run when the caller sees the end.
C13_StatsOnEveryExit ==
    SingleEnded =>
        /\ single_key \in DOMAIN execution_stats
        /\ execution_stats[single_key] =
              ExpectedStats(Len(delivered[single_key]), Failed(single_key))

\* a stream that raised after one document, seen by the caller with its
\* record in place
C13_Witness ==
    /\ SingleEnded
    /\ single_outcome.kind = "LoaderExecutionError"
    /\ Len(delivered[single_key]) = 1
    /\ execution_stats[single_key].errors_count = 1

\* C14: stats are overwritten, not accumulated: the record of a key is the
\* record of its most recently finished run alone, and a key without a
\* finished run has no record.
C14_StatsOverwritten ==
    \A k \in Keys :
        IF finished[k] = <<>>
        THEN k \notin DOMAIN execution_stats
        ELSE /\ k \in DOMAIN execution_stats
             /\ LET last == finished[k][Len(finished[k])]
                IN execution_stats[k] = ExpectedStats(last.yielded, last.failed)

\* a second run of a key that yielded one document and failed, after a first
\* run that yielded two and completed
C14_Witness ==
    \E k \in Keys :
        /\ Len(finished[k]) = 2
        /\ finished[k][1] = [yielded |-> 2, failed |-> FALSE]
        /\ finished[k][2] = [yielded |-> 1, failed |-> TRUE]
        /\ execution_stats[k].documents_processed = 1

(* ------------------------ cancellation properties --------------------- *)
\* C15: cancelling the top-level run_all call cancels every in-flight
\* executor run and commits no stats for runs that did not finish: after the
\* cancellation the stats table holds no record written by an interrupted
\* run.
C15_CancelCommitsNoStats ==
    run_all_outcome.kind = "CancelledError" =>
        /\ \A k \in executors : tpc[k] \in {"done", "cancelled"}
        /\ \A k \in executors :
              tpc[k] = "cancelled" => k \notin DOMAIN execution_stats

(* --------------------------- backoff and others ----------------------- *)
\* some run other than k of the current run_all call is in its backoff sleep
OtherSleeps(k) ==
    /\ run_all_pc = "gathering"
    /\ \E j \in executors \ {k} : tpc[j] = "running" /\ rpc[j] = "sleeping"

\* an admitted task can take a step of its stream
CanProgress(k) ==
    ENABLED (\/ Yield(k) \/ Complete(k) \/ Wake(k)
             \/ \E kind \in RunAllErrorKinds : Fail(k, kind))

EnabledKeys(list) ==
    {SourceKeys[i] : i \in {j \in 1..Len(SourceKeys) :
        \E n \in 1..Len(list) :
            /\ list[n].enabled
            /\ list[n].source_type = LoaderTypes[j]
            /\ list[n].source_key = SourceNames[j]}}

\* C17: constructing an orchestrator from a list of LoaderSource records
\* gives a registry whose key set is exactly the "<source_type>:<source_key>"
\* strings of the enabled sources: no disabled source is in it and every
\* enabled source is.
C17_RegistryIsEnabledSources ==
    init_pc # "running" =>
        /\ init_pc = "done"
        /\ executors = EnabledKeys(sources)

(* ------------------------------ total success ------------------------- *)
\* number of documents in the lists of a result map
RECURSIVE TotalSize(_, _)
TotalSize(map, S) ==
    IF S = {} THEN 0
    ELSE LET k == CHOOSE x \in S : TRUE
         IN Len(map[k]) + TotalSize(map, S \ {k})

TotalSuccess ==
    /\ run_all_pc = "done"
    /\ executors # {}
    /\ \A k \in executors : Succeeded(k) /\ Len(delivered[k]) >= 1

\* C18: when every registered executor succeeds and yields at least one
\* document, run_all returns a map whose lists hold exactly the documents
\* each executor yielded (total size = sum of the per-executor counts), and
\* the stats table then has one record per key with documents_processed equal
\* to that executor's count, error count 0 and success rate 1.0.
C18_TotalSuccess ==
    TotalSuccess =>
        /\ run_all_outcome.kind = "returned"
        /\ DOMAIN run_all_outcome.value = executors
        /\ \A k \in executors : run_all_outcome.value[k] = delivered[k]
        /\ TotalSize(run_all_outcome.value, executors) = TotalDelivered(executors)
        /\ DOMAIN execution_stats = executors
        /\ \A k \in executors :
              /\ execution_stats[k].documents_processed = Len(delivered[k])
              /\ execution_stats[k].errors_count = 0
              /\ execution_stats[k].success_rate[1] = execution_stats[k].success_rate[2]
              /\ execution_stats[k].success_rate[2] > 0

\* two executors succeeded, each with at least one document
C18_Witness ==
    /\ TotalSuccess
    /\ Cardinality(executors) >= 2
    /\ TotalSize(run_all_outcome.value, executors) >= 2

(* ------------------------------- get_stats ---------------------------- *)
\* no run of a registered executor has finished
NoRunFinished == \A k \in executors : finished[k] = <<>>

\* a/b is the mean of the success rates of the records of a stats table
IsMeanRate(avg, stats) ==
    LET total == SumRates(stats, DOMAIN stats)
    IN avg[1] * total[2] * Cardinality(DOMAIN stats) = total[1] * avg[2]

\* what C19 says of the value get_stats has just returned
ReportAsClaimed ==
    /\ stats_report = NoStatistics <=> NoRunFinished
    /\ stats_report # NoStatistics =>
          /\ stats_report.by_loader = execution_stats
          /\ stats_report.summary.total_loaders = Cardinality(DOMAIN execution_stats)
          /\ stats_report.summary.total_documents =
                SumField(execution_stats, DOMAIN execution_stats, "documents_processed")
          /\ stats_report.summary.total_errors =
                SumField(execution_stats, DOMAIN execution_stats, "errors_count")
          /\ IsMeanRate(stats_report.summary.average_success_rate, execution_stats)

\* C19: get_stats returns the no-data marker exactly when no run of a
\* registered executor has finished yet; otherwise it returns the per-key
\* records with totals: total_loaders the number of keys with a record,
\* total_documents and total_errors the sums of their counts, and the average
\* success rate the mean of their success rates.
C19_GetStats == [][stats_report' # stats_report => ReportAsClaimed']_vars

(* ------------------------------ health_check -------------------------- *)
\* executors the last health_check found unhealthy
ProbedUnhealthy ==
    {k \in DOMAIN health_report.executors : health_report.executors[k] = "unhealthy"}

\* C20: health_check reports "healthy" when every registered executor probes
\* healthy, "degraded" when some but not all probe unhealthy, "unhealthy"
\* when all probe unhealthy or when no executor is registered; the healthy
\* and unhealthy counts of the summary add up to the number of registered
\* executors.
C20_HealthStatus ==
    health_report # NoReport =>
        /\ DOMAIN health_report.executors = executors
        /\ health_report.status =
              IF executors = {} \/ ProbedUnhealthy = executors THEN "unhealthy"
              ELSE IF ProbedUnhealthy = {} THEN "healthy"
              ELSE "degraded"
        /\ health_report.summary.healthy + health_report.summary.unhealthy
              = Cardinality(executors)

(* ----------------------------- run_by_type --------------------------- *)
\* executor runs that have started and not ended
OpenRuns == {k \in DOMAIN rpc : rpc[k] \in {"streaming", "sleeping"}}

\* registered keys whose type part is t
KeysOfType(t) == {k \in executors : LoaderTypes[KeyIndex(k)] = t}

\* C21: run_by_type runs the registered executors whose key starts with
\* "<source_type>:" one after another (no two of its runs overlap), returns a
\* map with exactly one entry per such key and none for any other key, and
\* returns an empty map without raising when no registered key has the type.
C21_ByTypeSequential ==
    /\ Cardinality(OpenRuns) <= 1
    /\ by_type_pc # "idle" => OpenRuns \subseteq KeysOfType(source_type)
    /\ by_type_pc = "done" =>
          /\ by_type_outcome.kind = "returned"
          /\ DOMAIN by_type_outcome.value = KeysOfType(source_type)
          /\ KeysOfType(source_type) = {} => by_type_outcome.value = <<>>

\* two executors of the type were run, one of another type is registered
C21_Witness ==
    /\ by_type_pc = "done"
    /\ Cardinality(DOMAIN by_type_outcome.value) = 2
    /\ executors \ KeysOfType(source_type) # {}
    /\ \E k \in KeysOfType(source_type) : Failed(k)
    /\ \E k \in KeysOfType(source_type) : Succeeded(k) /\ delivered[k] # <<>>

(* -------------------------------- DateRange --------------------------- *)
\* instants t the range excludes, said without includes: before a set start
\* or after a set end
Outside(r, t) ==
    \/ \E a \in Instants : r.start = a /\ t < a
    \/ \E b \in Instants : r.end = b /\ b < t

\* C23: r.includes(t) is false exactly when r.start is set and t < r.start,
\* or r.end is set and t > r.end; both bounds are inclusive, and a range with
\* both bounds unset includes every instant.
C23_Includes ==
    date_pc = "done" =>
        /\ ~includes_result <=> Outside(date_range, target_date)
        \* an instant on one bound is excluded only by the other bound
        /\ (/\ target_date = date_range.start
            /\ (date_range.end = Unset \/ target_date <= date_range.end))
              => includes_result
        /\ (/\ target_date = date_range.end
            /\ (date_range.start = Unset \/ date_range.start <= target_date))
              => includes_result
        /\ (date_range.start = Unset /\ date_range.end = Unset) => includes_result

\* an instant on the end bound of a range with both bounds set is included
C23_Witness ==
    /\ date_pc = "done"
    /\ includes_result
    /\ date_range.start # Unset /\ date_range.end # Unset
    /\ date_range.start < date_range.end
    /\ target_date = date_range.end

(* --------------------------------- execute ---------------------------- *)
\* no invocation of fetch has failed
NoFailure(k) == Outcomes(k) \subseteq {"running", "ok"}

\* C22: execute relays documents unfiltered: with no failure, the sequence it
\* yields is exactly the sequence fetch yields, in the same order, including
\* documents whose timestamp lies outside the date range and documents
\* without timestamp; when no date range is given fetch receives a DateRange
\* with both bounds unset.
C22_ExecuteRelaysUnfiltered ==
    rpc[RetryKey] # "idle" =>
        /\ NoFailure(RetryKey) =>
              yielded = Prefix(RetryKey, LastCall(RetryKey).yielded)
        /\ date_range_arg = <<>> => date_range = [start |-> Unset, end |-> Unset]
        /\ date_range_arg # <<>> => date_range = date_range_arg[1]

\* a stream that ended without failure under a bounded range and yielded a
\* document dated before the range and one without timestamp
C22_Witness ==
    /\ rpc[RetryKey] = "returned"
    /\ NoFailure(RetryKey)
    /\ date_range_arg = <<[start |-> 1, end |-> 1]>>
    /\ Len(yielded) = 2
    /\ updated_at[1] = 0
    /\ updated_at[2] = Unset

(* --------------------------------- batcher ---------------------------- *)
\* the batch size the caller asked for: the argument, else the manager's
RequestedBatchSize == IF batch_size # <<>> THEN batch_size[1] ELSE self_batch_size

\* ceil(n / b)
Ceil(n, b) == (n + b - 1) \div b

\* the batches of a list, one after the other
RECURSIVE Concatenation(_)
Concatenation(list) ==
    IF list = <<>> THEN <<>>
    ELSE Concatenation(SubSeq(list, 1, Len(list) - 1)) \o list[Len(list)]

\* C24: for a stream of n documents and batch_size b >= 1 the batcher yields
\* ceil(n/b) batches in order, every batch except possibly the last has
\* exactly b documents, the last has between 1 and b, no batch is empty, and
\* the concatenation of the batches equals the input stream.
C24_BatcherGroups ==
    (batch_pc = "done" /\ RequestedBatchSize >= 1) =>
        LET b == RequestedBatchSize
            n == Len(documents_stream)
        IN /\ Len(batches) = Ceil(n, b)
           /\ \A i \in 1..(Len(batches) - 1) : Len(batches[i]) = b
           /\ \A i \in 1..Len(batches) : Len(batches[i]) \in 1..b
           /\ Concatenation(batches) = documents_stream

\* five documents in batches of two: two full batches and a last one of one
C24_Witness ==
    /\ batch_pc = "done"
    /\ RequestedBatchSize = 2
    /\ Len(documents_stream) = 5
    /\ Len(batches) = 3
    /\ Len(batches[3]) = 1

(* -------------------------------- chunking ---------------------------- *)
\* C25: for every document and chunk_size >= 1, the N chunks returned have
\* chunk_index 0, 1, ..., N-1 in emission order, chunk i has id
\* "<document.id>_chunk_<i>" and document_id equal to the parent's id, so the
\* chunk ids of one document are pairwise distinct.
C25_ChunkIndexContiguous ==
    (chunk_pc \in {"looping", "done"} /\ chunk_size >= 1) =>
        /\ \A n \in 1..Len(chunks) :
              /\ chunks[n].chunk_index = n - 1
              /\ chunks[n].id = <<document.id, "_chunk_", n - 1>>
              /\ chunks[n].document_id = document.id
        /\ \A n, m \in 1..Len(chunks) : n # m => chunks[n].id # chunks[m].id

\* a text cut into three chunks
C25_Witness ==
    /\ chunk_pc = "done"
    /\ chunk_size = 2
    /\ Len(chunks) = 3

\* the characters of s that are not whitespace, in order
RECURSIVE NonSpace(_)
NonSpace(s) ==
    IF s = <<>> THEN <<>>
    ELSE IF isspace(s[1]) THEN NonSpace(Tail(s))
    ELSE <<s[1]>> \o NonSpace(Tail(s))

\* the texts of the first n chunks, one after the other
RECURSIVE ChunkTexts(_, _)
ChunkTexts(list, n) ==
    IF n = 0 THEN <<>> ELSE ChunkTexts(list, n - 1) \o list[n].text

\* C26: the word-boundary cut loses no text: the characters after the space a
\* slice is cut at are carried into the next slice, so every non-whitespace
\* character of document.text appears in some chunk and the chunks, in index
\* order, cover the text in order; every chunk text has at most chunk_size
\* characters.
C26_NoTextLost ==
    (chunk_pc = "done" /\ chunk_size >= 1) =>
        /\ NonSpace(ChunkTexts(chunks, Len(chunks))) = NonSpace(document.text)
        /\ \A n \in 1..Len(chunks) : Len(chunks[n].text) <= chunk_size

\* C27: chunking a document whose text is empty returns an empty list, not a
\* list holding one empty chunk, for every chunk_size.
C27_EmptyTextNoChunks ==
    (chunk_pc # "idle" /\ document.text = <<>>) =>
        (chunk_pc = "done" /\ chunks = <<>>)

\* an empty text was chunked with a chunk size of zero
C27_Witness ==
    /\ chunk_pc = "done"
    /\ document.text = <<>>
    /\ chunk_size = 0

(* ------------------------------ processing ---------------------------- *)
\* the positions in collaborator_calls of the calls of one operation
CallsOf(op) == {n \in 1..Len(collaborator_calls) : collaborator_calls[n].op = op}

\* C28: process_stream calls ensure_collection exactly once, with the
\* embedding collaborator's dimension, before the first document is consumed;
\* it then processes the documents one at a time in stream order, and a
\* failure while processing one document is skipped: every later document is
\* still processed and process_stream does not raise because of it.
C28_StreamSkipsFailures ==
    /\ process_pc # "idle" =>
          /\ CallsOf("ensure_collection") = {1}
          /\ collaborator_calls[1].arg = get_embedding_dimension(model_dimension)
    /\ process_pc = "idle" => proc_pos = 0
    \* one at a time, in stream order
    /\ \A n \in 1..Len(handled) : handled[n].pos = n
    /\ Len(handled) = IF process_pc \in {"chunk", "embed", "store"}
                      THEN proc_pos - 1 ELSE proc_pos
    \* only a failed ensure_collection makes the call raise
    /\ process_pc = "raised" => (proc_pos = 0 /\ ~collaborator_calls[1].ok)
    \* after a document, failed or not, the loop goes on to the next one or
    \* to the end of the stream
    /\ (handled # <<>> /\ process_pc \notin {"chunk", "embed", "store", "done"}) =>
          (process_pc = "next" /\ ENABLED (ProcessNext \/ ProcessEnd))
    /\ process_pc = "done" => Len(handled) = Len(input_documents)

\* the first document failed and the second was processed
C28_Witness ==
    /\ process_pc = "done"
    /\ Len(handled) = 2
    /\ handled[1].failed
    /\ ~handled[2].failed

\* the calls made for document pos, in order, as <<op, arg>> pairs
RECURSIVE CallsFor(_, _)
CallsFor(pos, n) ==
    IF n = 0 THEN <<>>
    ELSE IF collaborator_calls[n].pos = pos
         THEN Append(CallsFor(pos, n - 1),
                     <<collaborator_calls[n].op, collaborator_calls[n].arg>>)
         ELSE CallsFor(pos, n - 1)

\* C29: process_document on a document that produces zero chunks is a no-op:
\* it returns without error and calls neither the embedding collaborator nor
\* the vector store; on a document with N >= 1 chunks it calls the embedding
\* batch operation once with the N chunk texts in index order and then the
\* store's upsert once with those N chunks paired position by position with
\* the returned vectors.
C29_ProcessDocument ==
    \A h \in 1..Len(handled) :
        LET list == chunk_document(input_documents[h], DefaultChunkSize)
            made == CallsFor(h, Len(collaborator_calls))
        IN /\ list = <<>> => (made = <<>> /\ ~handled[h].failed)
           /\ (list # <<>> /\ ~handled[h].failed) =>
                 made = << <<"embed_texts", [n \in 1..Len(list) |-> list[n].text]>>,
                           <<"upsert",
                             [n \in 1..Len(list) |->
                                 [vector |-> Encode(list[n].text),
                                  payload |-> to_vector_payload(list[n])]]>> >>

\* a document without chunks and a document of two chunks were processed
C29_Witness ==
    /\ process_pc = "done"
    /\ Len(handled) = 2
    /\ input_documents[1].text = <<>>
    /\ Len(input_documents[2].text) = 2 * DefaultChunkSize
    /\ ~handled[2].failed

(* ------------------------------- liveness ----------------------------- *)
\* the tasks that hold a slot of the semaphore
Admitted == {k \in Keys : tpc[k] = "running"}

\* executor k passed the semaphore and its run has ended
WasAdmitted(k) == tpc[k] = "done" /\ Len(finished[k]) = 1

\* C30: run_all is live for max_concurrent >= 1: if every executor's stream
\* eventually completes or fails, every registered executor is eventually
\* admitted, a run that ends releases its slot so that a waiting executor is
\* admitted, and run_all eventually returns or raises.
C30_RunAllLive ==
    /\ [](run_all_pc = "gathering" =>
              semaphore = max_concurrent - Cardinality(Admitted))
    /\ (run_all_pc = "gathering" /\ max_concurrent >= 1)
          ~> (/\ run_all_pc = "done"
              /\ run_all_outcome.kind # "none"
              /\ \A k \in executors : WasAdmitted(k))

\* with one slot, an executor that had to wait has run after another ended
C30_Witness ==
    /\ max_concurrent = 1
    /\ run_all_pc = "done"
    /\ \A k \in Keys : tpc[k] = "done" /\ Len(finished[k]) = 1

(* ------------------------- a semaphore of zero ------------------------ *)
\* C31: with a non-empty registry and max_concurrent = 0, run_all admits no
\* executor and never returns or raises: every executor task waits for a slot
\* forever and no stats record is ever written.
C31_ZeroSlotsHang ==
    (max_concurrent = 0 /\ executors # {} /\ run_all_pc # "idle") =>
        /\ run_all_pc = "gathering"
        /\ run_all_outcome.kind = "none"
        /\ \A k \in executors : tpc[k] = "waiting" /\ rpc[k] = "idle"
        /\ execution_stats = <<>>
        /\ ~ENABLED Next

\* run_all was called with two executors and no slot
C31_Witness ==
    /\ max_concurrent = 0
    /\ Cardinality(executors) = 2
    /\ run_all_pc = "gathering"

(* -------------------- documents of a failed executor ------------------ *)
\* C32: in run_all, the documents a failed executor yielded before failing
\* are discarded from the result: if an executor yields k > 0 documents and
\* then fails, its result list is empty while its stats record shows
\* documents_processed = k, so the total of the result list sizes can be
\* smaller than the total_documents reported by get_stats.
C32_FailedDocumentsDiscarded ==
    /\ \A k \in executors :
          (tpc[k] = "done" /\ Failed(k) /\ Len(documents[k]) > 0) =>
              /\ results[k] = <<>>
              /\ execution_stats[k].documents_processed = Len(documents[k])
              /\ Len(documents[k]) = Len(delivered[k])
    /\ (run_all_pc = "done" /\ run_all_outcome.kind = "returned" /\ executors # {}) =>
          LET reported == get_execution_stats(execution_stats).summary.total_documents
              returned == TotalSize(run_all_outcome.value, executors)
          IN /\ returned <= reported
             /\ (\E k \in executors : Failed(k) /\ Len(documents[k]) > 0) =>
                   returned < reported

\* run_all returned after one executor failed with a document yielded and
\* another succeeded
C32_Witness ==
    /\ run_all_pc = "done"
    /\ run_all_outcome.kind = "returned"
    /\ \E k \in executors : Failed(k) /\ Len(documents[k]) > 0
    /\ TotalSize(run_all_outcome.value, executors) <
          get_execution_stats(execution_stats).summary.total_documents

(* ----------------------- retries and the statistics ------------------- *)
\* the documents yielded over the first n attempts of the calls cs
RECURSIVE YieldedInCalls(_, _)
YieldedInCalls(cs, n) ==
    IF n = 0 THEN 0 ELSE YieldedInCalls(cs, n - 1) + cs[n].yielded

\* the current run_single call completed after at least one failed attempt
CompletedAfterRetry ==
    /\ SingleEnded
    /\ Succeeded(single_key)
    /\ Len(calls[single_key]) >= 2

\* what C33 says of the error count: 1 only when the failure surfaced to
\* run_single, never more than 1
ErrorCountOfRun ==
    SingleEnded =>
        /\ execution_stats[single_key].errors_count \in {0, 1}
        /\ execution_stats[single_key].errors_count = 1 =>
              (Failed(single_key) /\ single_outcome.kind = "LoaderExecutionError")

\* C33 (as stated): when an executor's first attempt yields k documents and
\* fails transiently and a later attempt completes after yielding n documents,
\* run_single yields k + n documents, the stats record shows
\* documents_processed = k + n, error count 0 and success rate 1.0; the error
\* count of a run is 1 only when the failure surfaces, and never more than 1.
C33_RetriesInvisible ==
    /\ CompletedAfterRetry =>
          LET total == YieldedInCalls(calls[single_key], Len(calls[single_key]))
              record == execution_stats[single_key]
          IN /\ Len(delivered[single_key]) = total
             /\ record.documents_processed = total
             /\ record.errors_count = 0
             /\ record.success_rate[1] = record.success_rate[2]
             /\ record.success_rate[2] > 0
    /\ ErrorCountOfRun

\* C33 (amended): as stated, with success rate 1.0 when k + n > 0 and 0.0
\* when no attempt yielded a document.
C33_RetriesInvisibleUnlessEmpty ==
    /\ CompletedAfterRetry =>
          LET total == YieldedInCalls(calls[single_key], Len(calls[single_key]))
              record == execution_stats[single_key]
          IN /\ Len(delivered[single_key]) = total
             /\ record.documents_processed = total
             /\ record.errors_count = 0
             /\ record.success_rate = IF total > 0 THEN <<total, total>> ELSE <<0, 1>>
    /\ ErrorCountOfRun

\* a first attempt that yielded one document and failed, a second that
\* yielded one and completed
C33_Witness ==
    /\ CompletedAfterRetry
    /\ Len(calls[single_key]) = 2
    /\ calls[single_key][1].yielded = 1
    /\ calls[single_key][2].yielded = 1
    /\ execution_stats[single_key].documents_processed = 2

C35_ByTypeNeverRaises ==
    /\ by_type_outcome.kind \in {"none", "returned"}
    /\ by_type_pc = "done" =>
          /\ by_type_outcome.kind = "returned"
          /\ \A k \in KeysOfType(source_type) :
                /\ Failed(k) \/ Succeeded(k)
                /\ Len(finished[k]) = 1
                /\ Failed(k) => by_type_outcome.value[k] = <<>>
                /\ k \in DOMAIN execution_stats
                /\ execution_stats[k] = ExpectedStats(Len(delivered[k]), Failed(k))

\* both executors of the type failed, one of them after a document, and the
\* call returned
C35_Witness ==
    /\ by_type_pc = "done"
    /\ by_type_outcome.kind = "returned"
    /\ Cardinality(KeysOfType(source_type)) = 2
    /\ \A k \in KeysOfType(source_type) : Failed(k)
    /\ \E k \in KeysOfType(source_type) : Len(delivered[k]) > 0

(* ------------------------- run_single, absent key --------------------- *)
\* C36: run_single for a key that is not registered leaves the stats table
\* and the registry unchanged: no stats record is created or overwritten for
\* that key or any other key, and the error is raised only when the returned
\* stream is first iterated, not when run_single is called.
C36_AbsentKeyChangesNothing ==
    [][(single_pc' # "idle" /\ single_key' \notin executors) =>
          /\ execution_stats' = execution_stats
          /\ executors' = executors
          /\ single_pc' = "created" => single_outcome'.kind = "none"
          /\ single_pc' = "ended" =>
                /\ single_pc = "created"
                /\ single_outcome'.kind = "LoaderExecutionError"]_vars

\* the stream for an absent key has raised, after a run of a registered key
\* left its record
C36_Witness ==
    /\ single_pc = "ended"
    /\ single_key \notin executors
    /\ single_outcome.kind = "LoaderExecutionError"
    /\ execution_stats # <<>>

(* ------------------------ a failing batcher input --------------------- *)
\* C37: when the input stream of the batcher fails after m documents, the
\* error propagates to the consumer, the floor(m / batch_size) full batches
\* already formed have been yielded, and the m mod batch_size documents
\* accumulated in the incomplete batch are never yielded.
C37_BatcherInputFails ==
    (batch_pc = "raised" /\ effective_batch_size >= 1) =>
        LET b == effective_batch_size
            m == consumed
        IN /\ Len(batches) = m \div b
           /\ \A i \in 1..Len(batches) : Len(batches[i]) = b
           /\ Concatenation(batches) = SubSeq(documents_stream, 1, b * (m \div b))
           /\ batch = SubSeq(documents_stream, b * (m \div b) + 1, m)
           /\ Len(batch) = m % b
           /\ ~ENABLED (BatchDocument \/ BatchEnd \/ BatchFail)

\* the stream failed after five documents in batches of two: two batches
\* were yielded, the fifth document was not
C37_Witness ==
    /\ batch_pc = "raised"
    /\ effective_batch_size = 2
    /\ consumed = 5
    /\ Len(batches) = 2

(* --------------------------- number of chunks ------------------------- *)
\* the n-th slice of the text (n from 1) holds nothing but whitespace
BlankSlice(text, size, n) ==
    \A j \in ((n - 1) * size + 1)..Min(n * size, Len(text)) : isspace(text[j])

\* C38: for non-empty text and chunk_size >= 1, chunk always returns exactly
\* ceil(len(text) / chunk_size) chunks, because slice start offsets advance
\* by chunk_size regardless of truncation and of content; a slice consisting
\* only of whitespace therefore still produces a chunk, whose trimmed text is
\* empty.
C38_ChunkCount ==
    (chunk_pc = "done" /\ document.text # <<>> /\ chunk_size >= 1) =>
        /\ Len(chunks) = Ceil(Len(document.text), chunk_size)
        /\ chunk_i = chunk_size * Len(chunks)
        /\ \A n \in 1..Len(chunks) :
              BlankSlice(document.text, chunk_size, n) => chunks[n].text = <<>>

\* a text whose second slice of three is blank, cut into three chunks
C38_Witness ==
    /\ chunk_pc = "done"
    /\ chunk_size = 2
    /\ Len(document.text) = 6
    /\ BlankSlice(document.text, chunk_size, 2)
    /\ Len(chunks) = 3
    /\ chunks[2].text = <<>>
    /\ chunks[3].text # <<>>

(* ------------------------------ re-delivery --------------------------- *)
\* how many of the documents handled so far were document d, stored
\* without a failure
Stored(d) ==
    Cardinality({h \in 1..Len(handled) : input_documents[h] = d /\ ~handled[h].failed})

\* the points of the store that belong to document d
PointsOf(d) == {p \in points : p.payload.document_id = d.id}

\* C39: storing is not idempotent under re-delivery: processing the same
\* document twice through process_document adds a second set of N points with
\* fresh point ids to the vector store instead of replacing the first set, so
\* the store holds 2N points for that document; content hashes are written
\* into payloads but never used to suppress or overwrite duplicates.
C39_StoreNotIdempotent ==
    \A h \in 1..Len(handled) :
        LET d == input_documents[h]
            list == chunk_document(d, DefaultChunkSize)
        IN /\ Cardinality(PointsOf(d)) = Stored(d) * Len(list)
           /\ \A n \in 1..Len(list) :
                 Cardinality({p \in PointsOf(d) :
                                 p.payload.content_hash = list[n].content_hash})
                    = Stored(d)
           /\ \A p, q \in PointsOf(d) : p.id = q.id => p = q

\* a document of two chunks was delivered and stored twice: four points
C39_Witness ==
    /\ process_pc = "done"
    /\ Len(input_documents) = 2
    /\ input_documents[1] = input_documents[2]
    /\ Len(input_documents[1].text) = 2 * DefaultChunkSize
    /\ Stored(input_documents[1]) = 2
    /\ Cardinality(points) = 4

=============================================================================
